---- MODULE Spec2Model ----
(***************************************************************************)
(* A model of the react-blog-app client: the views BlogList, CreateBlog,   *)
(* EditBlog, BlogDetail with its embedded Comments and their file upload   *)
(* CommentFileUpload, and the lib helper fetchBlogs,                       *)
(* talking to the hosted backend (tables blogs, comments,                  *)
(* comment_attachments; buckets blog-images, comment-files; the live       *)
(* change channel).  Every await of a handler is a separate step: the      *)
(* request is issued, the backend serves it at some later moment, and the  *)
(* handler's continuation runs when the reply is delivered.  Handlers      *)
(* read the state values of the render they were created in (closures).    *)
(* Spec opens any one view; SpecList, SpecEdit, SpecDetail and SpecCreate  *)
(* open one view each, and SpecLastPage, SpecRoute, SpecUpload and SpecPost*)
(* follow one view through a longer session of fewer kinds of action.      *)
(***************************************************************************)
EXTENDS Integers, Sequences, FiniteSets, Bags, TLC

VARIABLES
    view,       \* the page mounted in this session: "list", "create", "edit", "detail", "lib"
    user,       \* state.auth.user: the signed-in user's id, or NoUser
    routeId,    \* useParams().id of EditBlog / BlogDetail
    dbBlogs,    \* remote table blogs: id -> row
    imgBucket,  \* remote bucket blog-images: the stored object paths
    dbComments, \* remote table comments: id -> row
    dbAttach,   \* remote table comment_attachments: comment id -> sequence of file urls
    fileBucket, \* remote bucket comment-files: the stored object paths
    flows,      \* async handler invocations suspended at an await
    sent,       \* the mutating requests the client has issued, in order
    prompts,    \* window.confirm: accepted prompts, and the last answer
    list,       \* BlogList component state
    lib,        \* last call of lib/storage.ts fetchBlogs and its result
    edit,       \* EditBlog component state
    create,     \* CreateBlog component state
    detail,     \* BlogDetail component state
    cm,         \* Comments component state (upload: its CommentFileUpload child)
    notifs,     \* change notifications in flight: the blog_id of each one's channel
    channels,   \* the change channels the client holds: the blog_id of each filter
    navigated,  \* the view called navigate("/") (it is unmounted)
    actions     \* user actions taken in this session

remoteVars == <<dbBlogs, imgBucket, dbComments, dbAttach, fileBucket>>
viewVars   == <<list, lib, edit, create, detail, cm, navigated>>
vars == <<view, user, routeId, dbBlogs, imgBucket, dbComments, dbAttach, fileBucket,
          flows, sent, prompts, list, lib, edit, create, detail, cm, notifs,
          channels, navigated, actions>>

----------------------------------------------------------------------------
(* Bounds of the model *)

MaxBlogs == 20      \* rows of the blogs table when BlogList opens
MaxFlows == 2       \* a user action starts only while fewer flows are in flight
MaxActions == 1     \* user actions that issue a request, in one session
MaxDeletes == 1     \* accepted delete confirmations in one session
MaxSearches == 1    \* uses of the search and clear buttons of BlogList in one session
MaxListDeletes == 2 \* accepted delete confirmations of a BlogList opened on its last page
MaxDrops == 2       \* batches dropped on CommentFileUpload in one session
MaxRemovals == 1    \* uses of the remove and clear buttons of CommentFileUpload
MaxPosts == 2       \* comments submitted in a session that stages files
MaxChanges == 1     \* comment changes in one session: other users' inserts and
                    \* deletes, and uses of the user's own comment and edit forms
MaxLibPage == 4     \* page argument of lib fetchBlogs
MaxLibLimit == 7    \* limit argument of lib fetchBlogs
MaxId == MaxBlogs + 2  \* ids the blogs table hands out

(* Program constants *)

ITEMS_PER_PAGE == 6
\* CommentFileUpload: const maxSize = 10 * 1024 * 1024 (bytes), and maxFiles of
\* the dropzone
maxSize == 10485760
maxFiles == 5

NoUser == "none"
Users == {"u1", "u2"}
\* a nullable reply field: Null, or Some(value)
Null == <<>>
Some(x) == <<x>>
NoPath == <<>>
ImagePath(i) == <<"blog-images", i>>

Min(a, b) == IF a < b THEN a ELSE b
Max(a, b) == IF a > b THEN a ELSE b

RemoveAt(s, i) == SubSeq(s, 1, i - 1) \o SubSeq(s, i + 1, Len(s))

\* Math.ceil(c / n) for c >= 0, n > 0
Ceil(c, n) == (c + n - 1) \div n

----------------------------------------------------------------------------
(* The hosted backend's query surface *)

\* .order("created_at", { ascending: false }): ids are assigned in creation order,
\* so the newest row is the one with the largest id
RECURSIVE DescFrom(_, _)
DescFrom(db, i) ==
    IF i = 0 THEN <<>>
    ELSE IF i \in DOMAIN db THEN <<db[i]>> \o DescFrom(db, i - 1)
         ELSE DescFrom(db, i - 1)

RowsDesc(db) == DescFrom(db, MaxId)

\* .or(`title.ilike.%s%,content.ilike.%s%`): titles and contents are single tokens
Matches(row, term) == row.title = term \/ row.content = term

RECURSIVE SelectSeq2(_, _)
SelectSeq2(rows, term) ==
    IF rows = <<>> THEN <<>>
    ELSE IF Matches(Head(rows), term)
         THEN <<Head(rows)>> \o SelectSeq2(Tail(rows), term)
         ELSE SelectSeq2(Tail(rows), term)

\* .range(from, to): the rows at zero-based offsets from..to, both inclusive
Range(rows, from, to) ==
    IF from + 1 > Len(rows) THEN <<>>
    ELSE SubSeq(rows, from + 1, Min(to + 1, Len(rows)))

----------------------------------------------------------------------------
(* Handler invocations suspended at an await.  A flow holds the request it *)
(* is waiting for (op and its arguments), the reply once the backend has   *)
(* served it (served, ok, data), and the values its closure captured.      *)

F0 == [kind |-> "", pc |-> "", op |-> "", served |-> FALSE, ok |-> TRUE, data |-> <<>>,
       page |-> 0, search |-> "", from |-> 0, to |-> 0, len |-> 0,
       id |-> 0, path |-> NoPath, title |-> "", content |-> "", look |-> <<>>,
       storageError |-> FALSE, author |-> "none", blogId |-> 0, batch |-> <<>>]

Put(b, f) == b (+) SetToBag({f})
Take(b, f) == b (-) SetToBag({f})
InFlight == BagToSet(flows)
Request(f, op) == [f EXCEPT !.op = op, !.served = FALSE, !.ok = TRUE, !.data = <<>>]

\* a mutating request as the client issued it
Sent(by, op, id, path) == [by |-> by, op |-> op, id |-> id, path |-> path]

----------------------------------------------------------------------------
(* lib/storage.ts fetchBlogs and BlogList.fetchBlogs: the requested window *)

WindowFrom(page, limit) == (page - 1) * limit
\* a window that ends one row late
WindowToOneMore(page, limit) == WindowFrom(page, limit) + limit
WindowTo(page, limit) == WindowFrom(page, limit) + limit - 1

\* the select of BlogList.fetchBlogs as the backend evaluates it
ListQuery(db, search, from, to) ==
    LET rows == RowsDesc(db)
        kept == IF search # "" THEN SelectSeq2(rows, search) ELSE rows
    IN Range(kept, from, to)

\* BlogList.fetchBlogs up to its await: setLoading(true) is applied by the caller
FetchBlogsFlow(page, search) ==
    [F0 EXCEPT !.kind = "fetchBlogs", !.op = "blogs.range", !.page = page,
               !.search = search,
               !.from = WindowFrom(page, ITEMS_PER_PAGE),
               !.to = WindowTo(page, ITEMS_PER_PAGE)]

FetchTotalCountFlow == [F0 EXCEPT !.kind = "fetchTotalCount", !.op = "blogs.count"]

\* useEffect(() => { fetchBlogs(); fetchTotalCount(); }, [currentPage])
PageEffect(b, page, search) == Put(Put(b, FetchBlogsFlow(page, search)), FetchTotalCountFlow)

----------------------------------------------------------------------------
(* The backend serving the requests of BlogList and of the lib helper *)

Waiting(op) == {f \in InFlight : f.op = op /\ ~f.served}
Reply(f, ok, data) == Put(Take(flows, f), [f EXCEPT !.served = TRUE, !.ok = ok, !.data = data])

\* select * from blogs [or-filter] order by created_at desc, range from..to
ServeBlogsRange ==
    \E f \in Waiting("blogs.range"), ok \in BOOLEAN :
        /\ flows' = Reply(f, ok, IF ok THEN ListQuery(dbBlogs, f.search, f.from, f.to)
                                       ELSE <<>>)
        /\ UNCHANGED <<actions, view, user, routeId, remoteVars, sent, prompts, viewVars, notifs, channels>>

\* select count(*) from blogs (count: "exact", head: true)
ServeBlogsCount ==
    \E f \in Waiting("blogs.count"), ok \in BOOLEAN :
        /\ flows' = Reply(f, ok, IF ok THEN Some(Cardinality(DOMAIN dbBlogs)) ELSE Null)
        /\ UNCHANGED <<actions, view, user, routeId, remoteVars, sent, prompts, viewVars, notifs, channels>>

\* storage.from('blog-images').remove([path]): the error is returned, not thrown
ServeImageRemove ==
    \E f \in Waiting("images.remove"), ok \in BOOLEAN :
        /\ flows' = Reply(f, ok, <<>>)
        /\ imgBucket' = IF ok THEN imgBucket \ {f.path} ELSE imgBucket
        /\ UNCHANGED <<actions, view, user, routeId, dbBlogs, dbComments, dbAttach, fileBucket,
                       sent, prompts, viewVars, notifs, channels>>

\* a blogs table without a row-level policy
MayWriteAnyone(db, id, requester) == id \in DOMAIN db
\* row-level policy of the blogs table: only the author's requests touch a row
MayWrite(db, id, requester) == id \in DOMAIN db /\ db[id].author_id = requester

Without(db, id) == [i \in DOMAIN db \ {id} |-> db[i]]

\* delete from blogs where id = f.id; a request no row passes deletes nothing
\* and reports no error
ServeBlogsDelete ==
    \E f \in Waiting("blogs.delete"), ok \in BOOLEAN :
        /\ flows' = Reply(f, ok, <<>>)
        /\ dbBlogs' = IF ok /\ MayWrite(dbBlogs, f.id, user) THEN Without(dbBlogs, f.id)
                      ELSE dbBlogs
        /\ UNCHANGED <<actions, view, user, routeId, imgBucket, dbComments, dbAttach, fileBucket,
                       sent, prompts, viewVars, notifs, channels>>

----------------------------------------------------------------------------
(* BlogList *)

ErrMessage == "request failed"
OrDefault(msg, default) == IF msg # "" THEN msg ELSE default

\* count || 0
CountOrZero(count) == IF count = Null THEN 0 ELSE count[1]

\* the page count rounded down
TotalPagesFloor(count) == CountOrZero(count) \div ITEMS_PER_PAGE
TotalPages(count) == Ceil(CountOrZero(count), ITEMS_PER_PAGE)

ListMounted == view = "list" /\ ~navigated
Room == BagCardinality(flows) < MaxFlows
Budget == actions < MaxActions
\* a user action counts when it issues a request
Spend(issues) == IF issues THEN Budget /\ actions' = actions + 1 ELSE actions' = actions

\* fetchBlogs after its await
FetchBlogsDone ==
    \E f \in InFlight :
        /\ f.kind = "fetchBlogs" /\ f.served
        /\ flows' = Take(flows, f)
        /\ list' = IF f.ok
                   THEN [list EXCEPT !.blogs = f.data, !.loading = FALSE]
                   ELSE [list EXCEPT !.error = OrDefault(ErrMessage, "Failed to load blogs"),
                                     !.loading = FALSE]
        /\ UNCHANGED <<actions, view, user, routeId, remoteVars, sent, prompts,
                       lib, create, edit, detail, cm, navigated, notifs, channels>>

\* fetchTotalCount after its await: a failure is only logged
FetchTotalCountDone ==
    \E f \in InFlight :
        /\ f.kind = "fetchTotalCount" /\ f.served
        /\ flows' = Take(flows, f)
        /\ list' = IF f.ok
                   THEN [list EXCEPT !.totalBlogs = CountOrZero(f.data),
                                     !.totalPages = TotalPages(f.data)]
                   ELSE list
        /\ UNCHANGED <<actions, view, user, routeId, remoteVars, sent, prompts,
                       lib, create, edit, detail, cm, navigated, notifs, channels>>

SearchTerms == {"", "a"}

\* the search input's onChange
SetSearch ==
    \E term \in SearchTerms :
        /\ ListMounted
        /\ list.search # term
        /\ list' = [list EXCEPT !.search = term]
        /\ UNCHANGED <<actions, view, user, routeId, remoteVars, flows, sent, prompts,
                       lib, create, edit, detail, cm, navigated, notifs, channels>>

\* handleSearch: setCurrentPage(1); fetchBlogs() of this render; the page effect
\* runs when currentPage changed
HandleSearch ==
    /\ ListMounted
    /\ Room
    /\ list.searches < MaxSearches
    /\ list' = [list EXCEPT !.currentPage = 1, !.loading = TRUE, !.searches = @ + 1]
    /\ flows' = LET b == Put(flows, FetchBlogsFlow(list.currentPage, list.search))
                IN IF list.currentPage # 1 THEN PageEffect(b, 1, list.search) ELSE b
    /\ UNCHANGED <<actions, view, user, routeId, remoteVars, sent, prompts,
                   lib, create, edit, detail, cm, navigated, notifs, channels>>

\* handleClearSearch: setSearch(""); setCurrentPage(1); fetchBlogs() of this render
HandleClearSearch ==
    /\ ListMounted
    /\ list.search # ""
    /\ Room
    /\ list.searches < MaxSearches
    /\ list' = [list EXCEPT !.search = "", !.currentPage = 1, !.loading = TRUE,
                            !.searches = @ + 1]
    /\ flows' = LET b == Put(flows, FetchBlogsFlow(list.currentPage, list.search))
                IN IF list.currentPage # 1 THEN PageEffect(b, 1, "") ELSE b
    /\ UNCHANGED <<actions, view, user, routeId, remoteVars, sent, prompts,
                   lib, create, edit, detail, cm, navigated, notifs, channels>>

\* goToPage(page), from the pagination buttons and the page select
GoToPage ==
    \E page \in 0..(list.totalPages + 1) :
        /\ ListMounted
        /\ Room
        /\ ~(page < 1 \/ page > list.totalPages)
        /\ page # list.currentPage
        /\ list' = [list EXCEPT !.currentPage = page, !.loading = TRUE]
        /\ flows' = PageEffect(flows, page, list.search)
        /\ Budget /\ actions' = actions + 1
        /\ UNCHANGED <<view, user, routeId, remoteVars, sent, prompts,
                       lib, create, edit, detail, cm, navigated, notifs, channels>>

\* a prompt whose answer is not looked at
ConfirmedAnyway(answer) == TRUE
\* window.confirm(...)
Confirmed(answer) == answer

\* a delete that never removes the image first
HasImageNever(imagePath) == FALSE
\* if (imagePath) { ... storage remove ... }
HasImage(imagePath) == imagePath # NoPath

Prompt(answer) == [accepted |-> prompts.accepted + (IF answer THEN 1 ELSE 0),
                   last |-> IF answer THEN "accepted" ELSE "declined"]

\* handleDelete(blog.id, blog.title, blog.image_path) up to its first await; the
\* button is rendered for the rows the user owns
ListDelete(k, answer) ==
    LET blog == list.blogs[k]
        f == [F0 EXCEPT !.kind = "BlogList.handleDelete", !.id = blog.id,
                        !.path = blog.image_path, !.page = list.currentPage,
                        !.search = list.search, !.len = Len(list.blogs)]
    IN /\ ListMounted
       /\ user # NoUser /\ user = blog.author_id
       /\ Room
       /\ prompts' = Prompt(answer)
       /\ IF ~Confirmed(answer)
          THEN UNCHANGED <<flows, sent>>
          ELSE IF HasImage(blog.image_path)
               THEN /\ flows' = Put(flows, Request([f EXCEPT !.pc = "storage"],
                                                   "images.remove"))
                    /\ sent' = Append(sent, Sent("BlogList", "images.remove",
                                                 blog.id, blog.image_path))
               ELSE /\ flows' = Put(flows, Request([f EXCEPT !.pc = "row"],
                                                   "blogs.delete"))
                    /\ sent' = Append(sent, Sent("BlogList", "blogs.delete",
                                                 blog.id, NoPath))
       /\ UNCHANGED <<view, user, routeId, remoteVars, viewVars, notifs, channels>>

ListHandleDelete ==
    \E k \in 1..Len(list.blogs), answer \in BOOLEAN :
        /\ answer => prompts.accepted < MaxDeletes
        /\ ListDelete(k, answer)
        /\ Spend(answer)

\* handleDelete in a session that deletes more than one post
LastPageHandleDelete ==
    \E k \in 1..Len(list.blogs), answer \in BOOLEAN :
        /\ answer => prompts.accepted < MaxListDeletes
        /\ ListDelete(k, answer)
        /\ UNCHANGED actions

\* handleDelete after the storage removal: its result is not looked at
ListDeleteAfterStorage ==
    \E f \in InFlight :
        /\ f.kind = "BlogList.handleDelete" /\ f.pc = "storage" /\ f.served
        /\ flows' = Put(Take(flows, f),
                        Request([f EXCEPT !.pc = "row", !.storageError = ~f.ok],
                                "blogs.delete"))
        /\ sent' = Append(sent, Sent("BlogList", "blogs.delete", f.id, NoPath))
        /\ UNCHANGED <<actions, view, user, routeId, remoteVars, prompts, viewVars, notifs, channels>>

\* handleDelete after the row delete: refresh with the closure's page and search,
\* then step back a page when the deleted post was the only one shown
ListDeleteAfterRow ==
    \E f \in InFlight :
        /\ f.kind = "BlogList.handleDelete" /\ f.pc = "row" /\ f.served
        /\ IF ~f.ok
           THEN /\ flows' = Take(flows, f)
                /\ UNCHANGED list
           ELSE LET b == Put(Put(Take(flows, f), FetchBlogsFlow(f.page, f.search)),
                             FetchTotalCountFlow)
                    back == f.len = 1 /\ f.page > 1
                IN /\ list' = [list EXCEPT !.loading = TRUE,
                                           !.currentPage = IF back THEN f.page - 1 ELSE @]
                   /\ flows' = IF back /\ list.currentPage # f.page - 1
                               THEN PageEffect(b, f.page - 1, list.search)
                               ELSE b
        /\ UNCHANGED <<actions, view, user, routeId, remoteVars, sent, prompts,
                       lib, create, edit, detail, cm, navigated, notifs, channels>>

----------------------------------------------------------------------------
(* The backend serving the single-row requests of EditBlog and BlogDetail *)

\* select * from blogs where id = f.id, .single(): no row is an error
ServeBlogsSingle ==
    \E f \in Waiting("blogs.single"), ok \in BOOLEAN :
        /\ flows' = IF ok /\ f.id \in DOMAIN dbBlogs
                    THEN Reply(f, TRUE, Some(dbBlogs[f.id]))
                    ELSE Reply(f, FALSE, Null)
        /\ UNCHANGED <<actions, view, user, routeId, remoteVars, sent, prompts, viewVars, notifs, channels>>

\* update blogs set title, content, image_url, image_path where id = f.id; a
\* request no row passes changes nothing and reports no error
ServeBlogsUpdate ==
    \E f \in Waiting("blogs.update"), ok \in BOOLEAN :
        /\ flows' = Reply(f, ok, Null)
        /\ dbBlogs' = IF ok /\ MayWrite(dbBlogs, f.id, user)
                      THEN [dbBlogs EXCEPT ![f.id] = [@ EXCEPT !.title = f.title,
                                                              !.content = f.content,
                                                              !.image_path = f.path]]
                      ELSE dbBlogs
        /\ UNCHANGED <<actions, view, user, routeId, imgBucket, dbComments, dbAttach, fileBucket,
                       sent, prompts, viewVars, notifs, channels>>

----------------------------------------------------------------------------
(* EditBlog *)

\* what the user types into the title and content inputs
Inputs == {"", " ", "c"}
Trim(text) == IF text = " " THEN "" ELSE text

\* the form is rendered once loading is false
EditShown == view = "edit" /\ ~navigated /\ ~edit.loading

EditFetchBlogFlow(id) == [F0 EXCEPT !.kind = "EditBlog.fetchBlog", !.op = "blogs.single",
                                    !.id = id]

\* the ownership test of fetchBlog
IsOwner(row, u) == row.author_id = u

\* fetchBlog after its await
EditFetchBlogDone ==
    \E f \in InFlight :
        /\ f.kind = "EditBlog.fetchBlog" /\ f.served
        /\ flows' = Take(flows, f)
        /\ edit' =
             IF ~f.ok
             THEN [edit EXCEPT !.error = OrDefault(ErrMessage, "Failed to load blog"),
                               !.found = "error", !.loading = FALSE]
             ELSE IF ~IsOwner(f.data[1], user)
             THEN [edit EXCEPT !.error = "You don't have permission to edit this blog",
                               !.found = "notOwner", !.timers = @ + 1, !.loading = FALSE]
             ELSE [edit EXCEPT !.title = f.data[1].title, !.content = f.data[1].content,
                               !.imagePath = f.data[1].image_path,
                               !.found = "owner", !.loading = FALSE]
        /\ UNCHANGED <<actions, view, user, routeId, remoteVars, sent, prompts,
                       list, lib, create, detail, cm, navigated, notifs, channels>>

\* setTimeout(() => navigate("/"), ...) fires
EditTimerFires ==
    /\ view = "edit" /\ edit.timers > 0
    /\ edit' = [edit EXCEPT !.timers = @ - 1]
    /\ navigated' = TRUE
    /\ UNCHANGED <<actions, view, user, routeId, remoteVars, flows, sent, prompts,
                   list, lib, create, detail, cm, notifs, channels>>

\* the title input's onChange (disabled while saving)
EditSetTitle ==
    \E text \in Inputs :
        /\ EditShown /\ ~edit.saving
        /\ edit.title # text
        /\ edit' = [edit EXCEPT !.title = text]
        /\ UNCHANGED <<actions, view, user, routeId, remoteVars, flows, sent, prompts,
                       list, lib, create, detail, cm, navigated, notifs, channels>>

\* the content textarea's onChange (disabled while saving)
EditSetContent ==
    \E text \in Inputs :
        /\ EditShown /\ ~edit.saving
        /\ edit.content # text
        /\ edit' = [edit EXCEPT !.content = text]
        /\ UNCHANGED <<actions, view, user, routeId, remoteVars, flows, sent, prompts,
                       list, lib, create, detail, cm, navigated, notifs, channels>>

\* the checks of handleSubmit that return before any request
SubmitRejected == Trim(edit.title) = "" \/ Trim(edit.content) = "" \/ user = NoUser

\* handleSubmit up to its await (the submit button is disabled while saving)
EditHandleSubmit ==
    /\ EditShown /\ ~edit.saving
    /\ Room
    /\ Spend(~SubmitRejected)
    /\ IF SubmitRejected
       THEN /\ edit' = [edit EXCEPT !.error =
                           IF Trim(edit.title) = "" THEN "Please enter a title"
                           ELSE IF Trim(edit.content) = "" THEN "Please enter blog content"
                           ELSE "You must be logged in to edit a blog"]
            /\ UNCHANGED <<flows, sent>>
       ELSE /\ edit' = [edit EXCEPT !.saving = TRUE, !.error = "", !.success = ""]
            /\ flows' = Put(flows, [F0 EXCEPT !.kind = "EditBlog.handleSubmit",
                                             !.op = "blogs.update", !.id = routeId,
                                             !.title = Trim(edit.title),
                                             !.content = Trim(edit.content),
                                             !.path = edit.imagePath])
            /\ sent' = Append(sent, Sent("EditBlog", "blogs.update", routeId, edit.imagePath))
    /\ UNCHANGED <<view, user, routeId, remoteVars, prompts,
                   list, lib, create, detail, cm, navigated, notifs, channels>>

\* handleSubmit after its await
EditSubmitDone ==
    \E f \in InFlight :
        /\ f.kind = "EditBlog.handleSubmit" /\ f.served
        /\ flows' = Take(flows, f)
        /\ edit' = IF f.ok
                   THEN [edit EXCEPT !.success = "Blog updated successfully!",
                                     !.timers = @ + 1, !.saving = FALSE]
                   ELSE [edit EXCEPT !.error = OrDefault(ErrMessage, "Failed to update blog"),
                                     !.saving = FALSE]
        /\ UNCHANGED <<actions, view, user, routeId, remoteVars, sent, prompts,
                       list, lib, create, detail, cm, navigated, notifs, channels>>

\* handleDelete up to its first await
EditHandleDelete ==
    \E answer \in BOOLEAN :
        LET f == [F0 EXCEPT !.kind = "EditBlog.handleDelete", !.id = routeId,
                            !.path = edit.imagePath]
        IN /\ EditShown
           /\ Room
           /\ Spend(answer)
           /\ answer => prompts.accepted < MaxDeletes
           /\ prompts' = Prompt(answer)
           /\ IF ~Confirmed(answer)
              THEN UNCHANGED <<flows, sent>>
              ELSE IF HasImage(edit.imagePath)
                   THEN /\ flows' = Put(flows, Request([f EXCEPT !.pc = "storage"],
                                                       "images.remove"))
                        /\ sent' = Append(sent, Sent("EditBlog", "images.remove",
                                                     routeId, edit.imagePath))
                   ELSE /\ flows' = Put(flows, Request([f EXCEPT !.pc = "row"],
                                                       "blogs.delete"))
                        /\ sent' = Append(sent, Sent("EditBlog", "blogs.delete",
                                                     routeId, NoPath))
           /\ UNCHANGED <<view, user, routeId, remoteVars, viewVars, notifs, channels>>

\* a delete that gives up when the storage removal failed
EditThrowsOnFailure(storageError) == storageError
\* if (storageError) console.error(...): the failure is logged, nothing is thrown
EditThrows(storageError) == FALSE

\* handleDelete after the storage removal
EditDeleteAfterStorage ==
    \E f \in InFlight :
        /\ f.kind = "EditBlog.handleDelete" /\ f.pc = "storage" /\ f.served
        /\ IF EditThrows(~f.ok)
           THEN /\ flows' = Take(flows, f)
                /\ edit' = [edit EXCEPT !.error = "Failed to delete blog: request failed"]
                /\ UNCHANGED sent
           ELSE /\ flows' = Put(Take(flows, f),
                                Request([f EXCEPT !.pc = "row", !.storageError = ~f.ok],
                                        "blogs.delete"))
                /\ sent' = Append(sent, Sent("EditBlog", "blogs.delete", f.id, NoPath))
                /\ UNCHANGED edit
        /\ UNCHANGED <<actions, view, user, routeId, remoteVars, prompts,
                       list, lib, create, detail, cm, navigated, notifs, channels>>

\* handleDelete after the row delete
EditDeleteAfterRow ==
    \E f \in InFlight :
        /\ f.kind = "EditBlog.handleDelete" /\ f.pc = "row" /\ f.served
        /\ flows' = Take(flows, f)
        /\ IF f.ok
           THEN navigated' = TRUE /\ UNCHANGED edit
           ELSE /\ edit' = [edit EXCEPT !.error = "Failed to delete blog: request failed"]
                /\ UNCHANGED navigated
        /\ UNCHANGED <<actions, view, user, routeId, remoteVars, sent, prompts,
                       list, lib, create, detail, cm, notifs, channels>>

\* handleCancel
EditHandleCancel ==
    \E answer \in BOOLEAN :
        /\ EditShown /\ ~edit.saving
        /\ navigated' = answer
        /\ UNCHANGED <<actions, view, user, routeId, remoteVars, flows, sent, prompts,
                       list, lib, create, edit, detail, cm, notifs, channels>>

\* handleDeleteImage up to its await (the button shows while an image is set)
EditHandleDeleteImage ==
    /\ EditShown /\ ~edit.saving
    /\ edit.imagePath # NoPath
    /\ Room
    /\ Budget /\ actions' = actions + 1
    /\ flows' = Put(flows, [F0 EXCEPT !.kind = "EditBlog.handleDeleteImage",
                                     !.op = "images.remove", !.path = edit.imagePath])
    /\ sent' = Append(sent, Sent("EditBlog.handleDeleteImage", "images.remove",
                                 routeId, edit.imagePath))
    /\ UNCHANGED <<view, user, routeId, remoteVars, prompts, viewVars, notifs, channels>>

\* handleDeleteImage after its await
EditDeleteImageDone ==
    \E f \in InFlight :
        /\ f.kind = "EditBlog.handleDeleteImage" /\ f.served
        /\ flows' = Take(flows, f)
        /\ edit' = IF f.ok
                   THEN [edit EXCEPT !.imagePath = NoPath]
                   ELSE [edit EXCEPT !.error = "Failed to delete image: request failed"]
        /\ UNCHANGED <<actions, view, user, routeId, remoteVars, sent, prompts,
                       list, lib, create, detail, cm, navigated, notifs, channels>>

----------------------------------------------------------------------------
(* The backend serving BlogDetail and Comments, and the live change channel *)

\* getPublicUrl(path) of a bucket, as the '/'-separated segments of the url
PublicUrl(bucket, path) == <<"https:", "", "host", "storage", "v1", "object", "public", bucket>>
                           \o path

\* the path CommentFileUpload stores a file at
FilePath(name) == <<"comment-files", name>>

\* select id, email from users where id = f.id, .single()
ServeUsersSingle ==
    \E f \in Waiting("users.single"), ok \in BOOLEAN :
        /\ flows' = Reply(f, ok, IF ok THEN Some(f.id) ELSE Null)
        /\ UNCHANGED <<actions, view, user, routeId, remoteVars, sent, prompts, viewVars, notifs, channels>>

\* the comments of a post, newest first
CommentsOf(db, blogId) ==
    LET rows == RowsDesc(db)
        Keep(row) == row.blog_id = blogId
    IN SelectSeq(rows, Keep)

\* select * from comments where blog_id = f.id order by created_at desc
ServeCommentsSelect ==
    \E f \in Waiting("comments.select"), ok \in BOOLEAN :
        /\ flows' = Reply(f, ok, IF ok THEN CommentsOf(dbComments, f.id) ELSE <<>>)
        /\ UNCHANGED <<actions, view, user, routeId, remoteVars, sent, prompts, viewVars, notifs, channels>>

\* the data field of an attachment lookup's reply: null, or an array of rows
NullRows == [null |-> TRUE, rows |-> <<>>]
Rows(r) == [null |-> FALSE, rows |-> r]

\* the lookups of a fetch that are not served yet
Unserved(f) == {k \in 1..Len(f.look) : ~f.look[k].served}

\* select * from comment_attachments where comment_id = ...: one lookup of the
\* Promise.all; a failed lookup resolves with data null
ServeAttachmentsSelect ==
    \E f \in InFlight :
        /\ f.op = "attachments.select"
        /\ \E k \in Unserved(f), ok \in BOOLEAN :
             LET cid == f.data[k].id
                 rows == IF cid \in DOMAIN dbAttach THEN dbAttach[cid] ELSE <<>>
                 reply == [served |-> TRUE, data |-> IF ok THEN Rows(rows) ELSE NullRows]
                 g == [f EXCEPT !.look[k] = reply]
             IN flows' = Put(Take(flows, f),
                             [g EXCEPT !.served = (Unserved(g) = {})])
        /\ UNCHANGED <<actions, view, user, routeId, remoteVars, sent, prompts, viewVars, notifs, channels>>

\* the page shows the post and its Comments once loaded without error
DetailMain == view = "detail" /\ ~navigated /\ ~detail.loading /\ detail.error = ""
              /\ detail.blog # Null

\* supabase.channel(...).on('postgres_changes', { filter: blog_id=eq.blogId },
\* ...).subscribe() in the effect of Comments
Subscribe(ch, blogId) == Put(ch, blogId)

\* variant: the effect has no cleanup
RemoveChannelNot(ch, blogId) == ch
\* the effect's cleanup: supabase.removeChannel(channel)
RemoveChannel(ch, blogId) == Take(ch, blogId)

\* the client holds a channel filtered on blogId
Subscribed(blogId) == BagIn(blogId, channels)

\* a change of a comments row is published to every channel filtered on its
\* blog_id
Publish(blogId) ==
    notifs (+) [b \in {blogId} \cap BagToSet(channels) |-> CopiesIn(b, channels)]

\* the render after a step that takes the post off the screen unmounts
\* Comments: the cleanup of its effect runs
AfterRender(ch) ==
    IF DetailMain /\ ~DetailMain' THEN RemoveChannel(ch, routeId) ELSE ch

\* delete from comments where id = f.id and author_id = f.author; the attachment
\* rows go with the comment (cascade)
ServeCommentsDelete ==
    \E f \in Waiting("comments.delete"), ok \in BOOLEAN :
        LET hit == /\ ok /\ f.id \in DOMAIN dbComments
                   /\ (f.author = "any" \/ dbComments[f.id].author_id = f.author)
        IN /\ flows' = Reply(f, ok, f.data)
           /\ dbComments' = IF hit THEN Without(dbComments, f.id) ELSE dbComments
           /\ dbAttach' = IF hit THEN Without(dbAttach, f.id) ELSE dbAttach
           /\ notifs' = IF hit THEN Publish(dbComments[f.id].blog_id) ELSE notifs
           /\ UNCHANGED channels
           /\ UNCHANGED <<actions, view, user, routeId, dbBlogs, imgBucket, fileBucket,
                          sent, prompts, viewVars>>

\* storage.from('comment-files').remove(paths): the result is not looked at
ServeFilesRemove ==
    \E f \in Waiting("files.remove"), ok \in BOOLEAN :
        /\ flows' = Reply(f, ok, f.data)
        /\ fileBucket' = IF ok THEN fileBucket \ {f.data[k] : k \in 1..Len(f.data)}
                         ELSE fileBucket
        /\ UNCHANGED <<actions, view, user, routeId, dbBlogs, imgBucket, dbComments, dbAttach,
                       sent, prompts, viewVars, notifs, channels>>

NextCommentId == IF DOMAIN dbComments = {} THEN 1
                 ELSE 1 + CHOOSE i \in DOMAIN dbComments : \A j \in DOMAIN dbComments : j <= i

OtherUser == "u2"

\* another browser posts a comment on the post
OtherInserts ==
    /\ view = "detail"
    /\ cm.changes < MaxChanges
    /\ LET id == NextCommentId
       IN /\ dbComments' = [i \in DOMAIN dbComments \cup {id} |->
                              IF i = id THEN [id |-> id, blog_id |-> routeId,
                                              author_id |-> OtherUser, content |-> "b"]
                              ELSE dbComments[i]]
          /\ dbAttach' = [i \in DOMAIN dbAttach \cup {id} |->
                            IF i = id THEN <<>> ELSE dbAttach[i]]
    /\ notifs' = Publish(routeId)
    /\ UNCHANGED channels
    /\ cm' = [cm EXCEPT !.changes = @ + 1]
    /\ UNCHANGED <<actions, view, user, routeId, dbBlogs, imgBucket, fileBucket, flows, sent,
                   prompts, list, lib, create, edit, detail, navigated>>

\* another browser deletes one of its comments
OtherDeletes ==
    \E id \in DOMAIN dbComments :
        /\ view = "detail"
        /\ cm.changes < MaxChanges
        /\ dbComments[id].author_id = OtherUser /\ user # OtherUser
        /\ dbComments' = Without(dbComments, id)
        /\ dbAttach' = Without(dbAttach, id)
        /\ notifs' = Publish(dbComments[id].blog_id)
        /\ UNCHANGED channels
        /\ cm' = [cm EXCEPT !.changes = @ + 1]
        /\ UNCHANGED <<actions, view, user, routeId, dbBlogs, imgBucket, fileBucket, flows,
                       sent, prompts, list, lib, create, edit, detail, navigated>>

----------------------------------------------------------------------------
(* BlogDetail *)

DetailFetchBlogFlow(id) == [F0 EXCEPT !.kind = "BlogDetail.fetchBlog", !.pc = "blog",
                                      !.op = "blogs.single", !.id = id]

\* Comments.fetchComments up to its first await; setLoading(true) is applied by
\* the caller
FetchCommentsFlow(blogId) == [F0 EXCEPT !.kind = "fetchComments", !.pc = "comments",
                                        !.op = "comments.select", !.id = blogId]

\* nullLookup: a lookup of the fetch that set comments returned no data
\* ignored: handleSubmit or handleUpdate returned at its first check
\* CommentFileUpload useState initial values; drops and names count the batches
\* dropped and the file names generated in this session
UploadInit == [uploading |-> FALSE, error |-> "", uploadedFiles |-> <<>>,
               drops |-> 0, names |-> 0, removals |-> 0]

\* Comments useState initial values, and the state of its CommentFileUpload child
CmInit == [comments |-> <<>>, loading |-> TRUE, error |-> "", changes |-> 0,
           nullLookup |-> FALSE, content |-> "", uploadedFiles |-> <<>>,
           submitting |-> FALSE, editingCommentId |-> 0, editContent |-> "",
           ignored |-> FALSE, upload |-> UploadInit]

CmFresh == [CmInit EXCEPT !.changes = cm.changes]

\* fetchBlog after the post arrived: setBlog, then the author lookup
DetailFetchAfterBlog ==
    \E f \in InFlight :
        /\ f.kind = "BlogDetail.fetchBlog" /\ f.pc = "blog" /\ f.served
        /\ IF ~f.ok
           THEN /\ flows' = Take(flows, f)
                /\ detail' = [detail EXCEPT !.error = OrDefault(ErrMessage,
                                                                "Failed to load blog"),
                                            !.loading = FALSE]
           ELSE /\ flows' = Put(Take(flows, f),
                                Request([f EXCEPT !.pc = "author",
                                                  !.id = f.data[1].author_id],
                                        "users.single"))
                /\ detail' = [detail EXCEPT !.blog = f.data]
        /\ UNCHANGED <<actions, view, user, routeId, remoteVars, sent, prompts,
                       list, lib, create, edit, cm, navigated, notifs>>
        /\ channels' = AfterRender(channels)

\* fetchBlog after the author lookup: when loading ends, the page renders the
\* post and mounts Comments, whose effect fetches and subscribes
DetailFetchAfterAuthor ==
    \E f \in InFlight :
        /\ f.kind = "BlogDetail.fetchBlog" /\ f.pc = "author" /\ f.served
        /\ detail' = [detail EXCEPT !.author = IF f.data # Null THEN f.data ELSE @,
                                    !.loading = FALSE]
        /\ IF detail.loading /\ ~navigated /\ detail.error = ""
           THEN /\ flows' = Put(Take(flows, f), FetchCommentsFlow(routeId))
                /\ cm' = CmFresh
                /\ channels' = Subscribe(channels, routeId)
           ELSE /\ flows' = Take(flows, f)
                /\ UNCHANGED <<cm, channels>>
        /\ UNCHANGED <<actions, view, user, routeId, remoteVars, sent, prompts,
                       list, lib, create, edit, navigated, notifs>>

\* handleDelete up to its await: the button is rendered for the owner and
\* disabled while deleting
DetailHandleDelete ==
    \E answer \in BOOLEAN :
        /\ DetailMain
        /\ user # NoUser /\ user = detail.blog[1].author_id
        /\ ~detail.deleting
        /\ Room
        /\ Spend(answer)
        /\ answer => prompts.accepted < MaxDeletes
        /\ prompts' = Prompt(answer)
        /\ IF ~Confirmed(answer)
           THEN UNCHANGED <<flows, sent, detail>>
           ELSE /\ detail' = [detail EXCEPT !.deleting = TRUE]
                /\ flows' = Put(flows, [F0 EXCEPT !.kind = "BlogDetail.handleDelete",
                                                 !.pc = "row", !.op = "blogs.delete",
                                                 !.id = routeId])
                /\ sent' = Append(sent, Sent("BlogDetail", "blogs.delete", routeId, NoPath))
        /\ UNCHANGED <<view, user, routeId, remoteVars, list, lib, create, edit, cm, navigated, notifs, channels>>

\* handleDelete after its await
DetailDeleteDone ==
    \E f \in InFlight :
        /\ f.kind = "BlogDetail.handleDelete" /\ f.served
        /\ flows' = Take(flows, f)
        /\ IF f.ok
           THEN /\ navigated' = TRUE
                /\ detail' = [detail EXCEPT !.deleting = FALSE]
           ELSE /\ detail' = [detail EXCEPT !.error = "Failed to delete blog: request failed",
                                            !.deleting = FALSE]
                /\ UNCHANGED navigated
        /\ UNCHANGED <<actions, view, user, routeId, remoteVars, sent, prompts,
                       list, lib, create, edit, cm, notifs>>
        /\ channels' = AfterRender(channels)

\* the post another entry of the browser history shows
OtherPost == 2

\* the route parameter changes under the mounted page (a jump in the browser
\* history from one post to another): the effect of BlogDetail calls fetchBlog,
\* which leaves loading alone, and the effect of Comments is cleaned up and
\* runs again for the new blogId.  The session sees no change by other users
\* after it.
RouteChanges ==
    /\ DetailMain /\ routeId # OtherPost
    /\ Spend(TRUE)
    /\ routeId' = OtherPost
    /\ flows' = Put(Put(flows, DetailFetchBlogFlow(OtherPost)), FetchCommentsFlow(OtherPost))
    /\ cm' = [cm EXCEPT !.loading = TRUE, !.changes = MaxChanges]
    /\ channels' = Subscribe(RemoveChannel(channels, routeId), OtherPost)
    /\ UNCHANGED <<view, user, remoteVars, sent, prompts,
                   list, lib, create, edit, detail, navigated, notifs>>

\* the jump is made from a page at rest
DetailRouteChanges == flows = EmptyBag /\ RouteChanges

\* the jump is made while requests of the page left are in flight
DetailRouteChangesEarly == flows # EmptyBag /\ RouteChanges

----------------------------------------------------------------------------
(* Comments *)

\* the lookup's data passed on as it came
OrEmptyNot(data) == data
\* attachmentsData || []
OrEmpty(data) == IF data.null THEN Rows(<<>>) ELSE data

\* { ...comment, attachments: attachmentsData || [] }
WithAttachments(comment, data) ==
    [id |-> comment.id, blog_id |-> comment.blog_id, author_id |-> comment.author_id,
     content |-> comment.content, attachments |-> OrEmpty(data)]

\* a state update of Comments: dropped once the view is unmounted
CmSet(new) == IF DetailMain THEN new ELSE cm

\* variant: no fetch is started while one is in flight
OnChangeCoalesced(b, blogId) ==
    IF \E f \in BagToSet(b) : f.kind = "fetchComments" THEN b
    ELSE Put(b, FetchCommentsFlow(blogId))
\* () => { fetchComments(); }
OnChange(b, blogId) == Put(b, FetchCommentsFlow(blogId))

\* a notification arrives at the client: the callback of its channel calls
\* fetchComments; nothing is called for a channel that was removed
CmNotified ==
    \E b \in BagToSet(notifs) :
        /\ notifs' = Take(notifs, b)
        /\ IF Subscribed(b)
           THEN /\ flows' = OnChange(flows, b)
                /\ cm' = [cm EXCEPT !.loading = TRUE]
           ELSE UNCHANGED <<flows, cm>>
        /\ UNCHANGED channels        /\ UNCHANGED <<actions, view, user, routeId, remoteVars, sent, prompts,
                       list, lib, create, edit, detail, navigated>>

\* fetchComments after the comments arrived: the attachment lookups of all
\* comments are issued together
CmFetchAfterComments ==
    \E f \in InFlight :
        /\ f.kind = "fetchComments" /\ f.pc = "comments" /\ f.served
        /\ IF ~f.ok
           THEN /\ flows' = Take(flows, f)
                /\ cm' = CmSet([cm EXCEPT !.error = ErrMessage, !.loading = FALSE])
           ELSE IF f.data = <<>>
           THEN /\ flows' = Take(flows, f)
                /\ cm' = CmSet([cm EXCEPT !.comments = <<>>, !.nullLookup = FALSE,
                                          !.loading = FALSE])
           ELSE /\ flows' = Put(Take(flows, f),
                                [f EXCEPT !.pc = "attachments", !.op = "attachments.select",
                                          !.served = FALSE,
                                          !.look = [k \in 1..Len(f.data) |->
                                                      [served |-> FALSE, data |-> NullRows]]])
                /\ UNCHANGED cm
        /\ UNCHANGED <<actions, view, user, routeId, remoteVars, sent, prompts,
                       list, lib, create, edit, detail, navigated, notifs, channels>>

\* fetchComments after every lookup resolved: setComments, setLoading(false)
CmFetchDone ==
    \E f \in InFlight :
        /\ f.kind = "fetchComments" /\ f.pc = "attachments" /\ f.served
        /\ flows' = Take(flows, f)
        /\ cm' = CmSet([cm EXCEPT !.comments = [k \in 1..Len(f.data) |->
                                                  WithAttachments(f.data[k], f.look[k].data)],
                                  !.nullLookup = \E k \in 1..Len(f.look) : f.look[k].data.null,
                                  !.loading = FALSE])
        /\ UNCHANGED <<actions, view, user, routeId, remoteVars, sent, prompts,
                       list, lib, create, edit, detail, navigated, notifs, channels>>

\* url.includes('comment-files')
Includes(url) == \E i \in 1..Len(url) : url[i] = "comment-files"

\* parts.slice(parts.indexOf('comment-files')).join('/')
PathFromUrl(url) ==
    LET first == CHOOSE i \in 1..Len(url) :
                    url[i] = "comment-files" /\ \A j \in 1..(i - 1) : url[j] # "comment-files"
    IN SubSeq(url, first, Len(url))

\* the storage paths handleDelete derives from a comment's attachments
FilePaths(attachments) ==
    IF attachments.null THEN <<>>
    ELSE LET urls == SelectSeq(attachments.rows, Includes)
         IN [k \in 1..Len(urls) |-> PathFromUrl(urls[k])]

\* a request that names no author
OwnOnlyNot(u) == "any"
\* .eq("author_id", user?.id)
OwnOnly(u) == u

\* handleDelete(comment) up to its first await: the button is rendered on the
\* user's own comments
CmHandleDelete ==
    \E k \in 1..Len(cm.comments), answer \in BOOLEAN :
        LET comment == cm.comments[k]
        IN /\ DetailMain
           /\ user # NoUser /\ user = comment.author_id
           /\ Room
           /\ Spend(answer)
           /\ answer => prompts.accepted < MaxDeletes
           /\ prompts' = Prompt(answer)
           /\ IF ~Confirmed(answer)
              THEN UNCHANGED <<flows, sent>>
              ELSE /\ flows' = Put(flows, [F0 EXCEPT !.kind = "Comments.handleDelete",
                                                    !.pc = "row", !.op = "comments.delete",
                                                    !.id = comment.id,
                                                    !.author = OwnOnly(user),
                                                    !.blogId = routeId,
                                                    !.data = comment.attachments])
                   /\ sent' = Append(sent, Sent("Comments", "comments.delete",
                                                comment.id, NoPath))
           /\ UNCHANGED <<view, user, routeId, remoteVars, viewVars, notifs, channels>>

\* handleDelete after the row delete: on success the files are removed from
\* storage, or, with no file to remove, the comments are fetched again
CmDeleteAfterRow ==
    \E f \in InFlight :
        /\ f.kind = "Comments.handleDelete" /\ f.pc = "row" /\ f.served
        /\ IF ~f.ok
           THEN /\ flows' = Take(flows, f)
                /\ cm' = CmSet([cm EXCEPT !.error = ErrMessage])
                /\ UNCHANGED sent
           ELSE IF FilePaths(f.data) # <<>>
           THEN /\ flows' = Put(Take(flows, f),
                                [Request([f EXCEPT !.pc = "files"], "files.remove")
                                   EXCEPT !.data = FilePaths(f.data)])
                /\ sent' = Append(sent, Sent("Comments", "files.remove", f.id,
                                             FilePaths(f.data)))
                /\ UNCHANGED cm
           ELSE /\ flows' = Put(Take(flows, f), FetchCommentsFlow(f.blogId))
                /\ cm' = CmSet([cm EXCEPT !.loading = TRUE])
                /\ UNCHANGED sent
        /\ UNCHANGED <<actions, view, user, routeId, remoteVars, prompts,
                       list, lib, create, edit, detail, navigated, notifs, channels>>

\* handleDelete after the storage removal: fetchComments()
CmDeleteAfterFiles ==
    \E f \in InFlight :
        /\ f.kind = "Comments.handleDelete" /\ f.pc = "files" /\ f.served
        /\ flows' = Put(Take(flows, f), FetchCommentsFlow(f.blogId))
        /\ cm' = CmSet([cm EXCEPT !.loading = TRUE])
        /\ UNCHANGED <<actions, view, user, routeId, remoteVars, sent, prompts,
                       list, lib, create, edit, detail, navigated, notifs, channels>>

\* variant: the body is not looked at
CmSubmitIgnoredNoUserOnly(u, text) == u = NoUser
\* if (!user || !content.trim()) return
CmSubmitIgnored(u, text) == u = NoUser \/ Trim(text) = ""

\* the upload CommentFileUpload reports to handleFilesUpload
StagedFile == FilePath("f2")

\* handleSubmit up to its first await, on the form as it stands
CmSubmit(form) ==
    /\ DetailMain /\ ~cm.submitting
    /\ Room
    /\ IF CmSubmitIgnored(user, form.content)
       THEN /\ cm' = [form EXCEPT !.ignored = TRUE]
            /\ UNCHANGED <<flows, sent>>
       ELSE /\ cm' = [form EXCEPT !.submitting = TRUE, !.error = ""]
            /\ flows' = Put(flows, [F0 EXCEPT !.kind = "Comments.handleSubmit",
                                             !.pc = "comment",
                                             !.op = "comments.insert",
                                             !.id = routeId, !.author = user,
                                             !.blogId = routeId,
                                             !.content = Trim(form.content),
                                             !.look = form.uploadedFiles])
            /\ sent' = Append(sent, Sent("Comments", "comments.insert", routeId,
                                         NoPath))
    /\ UNCHANGED <<view, user, routeId, dbBlogs, imgBucket, dbComments, dbAttach,
                   prompts, list, lib, create, edit, detail, navigated, notifs, channels>>

\* handleSubmit on the form as the user filled it: setContent stored text, and
\* handleFilesUpload the url of a file already uploaded.  The form is rendered
\* for a signed-in user only; the submit event itself is taken however it was
\* dispatched.
CmHandleSubmit ==
    \E text \in Inputs, staged \in BOOLEAN :
        LET files == IF staged THEN <<PublicUrl("comment-files", StagedFile)>> ELSE <<>>
            form == [cm EXCEPT !.content = text, !.uploadedFiles = files,
                               !.changes = @ + 1]
        IN /\ cm.content = "" /\ cm.uploadedFiles = <<>>
           /\ user = NoUser => text = "" /\ ~staged
           /\ cm.changes < MaxChanges
           /\ Spend(~CmSubmitIgnored(user, text))
           /\ fileBucket' = IF staged THEN fileBucket \cup {StagedFile} ELSE fileBucket
           /\ CmSubmit(form)

\* insert into comments (blog_id, author_id, content) returning the row
ServeCommentsInsert ==
    \E f \in Waiting("comments.insert"), ok \in BOOLEAN :
        LET id == NextCommentId
        IN /\ flows' = Reply(f, ok, IF ok THEN Some(id) ELSE Null)
           /\ dbComments' = IF ok
                            THEN [i \in DOMAIN dbComments \cup {id} |->
                                    IF i = id THEN [id |-> id, blog_id |-> f.id,
                                                    author_id |-> f.author,
                                                    content |-> f.content]
                                    ELSE dbComments[i]]
                            ELSE dbComments
           /\ dbAttach' = IF ok
                          THEN [i \in DOMAIN dbAttach \cup {id} |->
                                  IF i = id THEN <<>> ELSE dbAttach[i]]
                          ELSE dbAttach
           /\ notifs' = IF ok THEN Publish(f.id) ELSE notifs
           /\ UNCHANGED channels
           /\ UNCHANGED <<actions, view, user, routeId, dbBlogs, imgBucket, fileBucket,
                          sent, prompts, viewVars>>

\* variant: the rows name the post instead of the comment
AttachmentsToInsertForBlog(commentId, files) ==
    [k \in 1..Len(files) |-> [comment_id |-> routeId, file_url |-> files[k]]]
\* attachmentsToInsert: one row per uploaded file, for the comment just inserted
AttachmentsToInsert(commentId, files) ==
    [k \in 1..Len(files) |-> [comment_id |-> commentId, file_url |-> files[k]]]

\* handleSubmit's end on success: the form is reset, fetchComments(), and
\* setSubmitting(false)
CmSubmitted == [cm EXCEPT !.content = "", !.uploadedFiles = <<>>, !.loading = TRUE,
                          !.submitting = FALSE]

\* variant: the catch sets no message
CmSubmitFailedSilently == [cm EXCEPT !.submitting = FALSE]
\* handleSubmit's catch and finally
CmSubmitFailed == [cm EXCEPT !.error = OrDefault(ErrMessage, "Failed to post comment"),
                             !.submitting = FALSE]

\* handleSubmit after the comment insert
CmSubmitAfterComment ==
    \E f \in InFlight :
        /\ f.kind = "Comments.handleSubmit" /\ f.pc = "comment" /\ f.served
        /\ IF ~f.ok
           THEN /\ flows' = Take(flows, f)
                /\ cm' = CmSet(CmSubmitFailed)
                /\ UNCHANGED sent
           ELSE IF Len(f.look) > 0
           THEN LET rows == AttachmentsToInsert(f.data[1], f.look)
                IN /\ flows' = Put(Take(flows, f),
                                   [f EXCEPT !.pc = "attachments",
                                             !.op = "attachments.insert",
                                             !.served = FALSE, !.look = rows])
                   /\ sent' = Append(sent, Sent("Comments", "attachments.insert",
                                                f.data[1], rows))
                   /\ UNCHANGED cm
           ELSE /\ flows' = Put(Take(flows, f), FetchCommentsFlow(f.blogId))
                /\ cm' = CmSet(CmSubmitted)
                /\ UNCHANGED sent
        /\ UNCHANGED <<actions, view, user, routeId, remoteVars, prompts,
                       list, lib, create, edit, detail, navigated, notifs, channels>>

\* the file urls that rows attaches to comment i
RECURSIVE UrlsFor(_, _)
UrlsFor(rows, i) ==
    IF rows = <<>> THEN <<>>
    ELSE (IF Head(rows).comment_id = i THEN <<Head(rows).file_url>> ELSE <<>>)
         \o UrlsFor(Tail(rows), i)

\* insert into comment_attachments the rows of the request; a row for a
\* comment that is not stored is refused (foreign key), and the insert with it
ServeAttachmentsInsert ==
    \E f \in Waiting("attachments.insert"), ok \in BOOLEAN :
        LET done == ok /\ \A k \in 1..Len(f.look) : f.look[k].comment_id \in DOMAIN dbComments
        IN /\ flows' = Put(Take(flows, f), [f EXCEPT !.served = TRUE, !.ok = done])
           /\ dbAttach' = IF done
                          THEN [i \in DOMAIN dbAttach |-> dbAttach[i] \o UrlsFor(f.look, i)]
                          ELSE dbAttach
           /\ UNCHANGED <<actions, view, user, routeId, dbBlogs, imgBucket, dbComments,
                          fileBucket, sent, prompts, viewVars, notifs, channels>>

\* variant: the attachment insert is sent again
ThrownToCatchRetried(f) == Put(Take(flows, f), [f EXCEPT !.served = FALSE])
\* if (attachError) throw attachError: the catch is all that follows
ThrownToCatch(f) == Take(flows, f)

\* handleSubmit after the attachment insert
CmSubmitAfterAttachments ==
    \E f \in InFlight :
        /\ f.kind = "Comments.handleSubmit" /\ f.pc = "attachments" /\ f.served
        /\ IF ~f.ok
           THEN /\ flows' = ThrownToCatch(f)
                /\ cm' = CmSet(CmSubmitFailed)
           ELSE /\ flows' = Put(Take(flows, f), FetchCommentsFlow(f.blogId))
                /\ cm' = CmSet(CmSubmitted)
        /\ UNCHANGED <<actions, view, user, routeId, remoteVars, sent, prompts,
                       list, lib, create, edit, detail, navigated, notifs, channels>>

\* startEdit(comment), the edit textarea's onChange and handleUpdate(comment.id)
\* up to its await: Edit and Save are rendered on the user's own comments
CmHandleUpdate ==
    \E k \in 1..Len(cm.comments), text \in Inputs :
        LET comment == cm.comments[k]
            form == [cm EXCEPT !.editingCommentId = comment.id, !.editContent = text,
                               !.changes = @ + 1]
        IN /\ DetailMain
           /\ user # NoUser /\ user = comment.author_id
           /\ cm.editingCommentId = 0
           /\ Room
           /\ cm.changes < MaxChanges
           /\ Spend(Trim(text) # "")
           /\ IF Trim(text) = ""
              THEN /\ cm' = [form EXCEPT !.ignored = TRUE]
                   /\ UNCHANGED <<flows, sent>>
              ELSE /\ cm' = form
                   /\ flows' = Put(flows, [F0 EXCEPT !.kind = "Comments.handleUpdate",
                                                    !.op = "comments.update",
                                                    !.id = comment.id,
                                                    !.author = OwnOnly(user),
                                                    !.blogId = routeId,
                                                    !.content = Trim(text)])
                   /\ sent' = Append(sent, Sent("Comments", "comments.update",
                                                comment.id, NoPath))
           /\ UNCHANGED <<view, user, routeId, remoteVars, prompts,
                          list, lib, create, edit, detail, navigated, notifs, channels>>

\* update comments set content where id = f.id and author_id = f.author
ServeCommentsUpdate ==
    \E f \in Waiting("comments.update"), ok \in BOOLEAN :
        LET hit == /\ ok /\ f.id \in DOMAIN dbComments
                   /\ (f.author = "any" \/ dbComments[f.id].author_id = f.author)
        IN /\ flows' = Reply(f, ok, <<>>)
           /\ dbComments' = IF hit THEN [dbComments EXCEPT ![f.id].content = f.content]
                            ELSE dbComments
           /\ notifs' = IF hit THEN Publish(dbComments[f.id].blog_id) ELSE notifs
           /\ UNCHANGED channels
           /\ UNCHANGED <<actions, view, user, routeId, dbBlogs, imgBucket, dbAttach,
                          fileBucket, sent, prompts, viewVars>>

\* handleUpdate after its await
CmUpdateDone ==
    \E f \in InFlight :
        /\ f.kind = "Comments.handleUpdate" /\ f.served
        /\ IF ~f.ok
           THEN /\ flows' = Take(flows, f)
                /\ cm' = CmSet([cm EXCEPT !.error = ErrMessage])
           ELSE /\ flows' = Put(Take(flows, f), FetchCommentsFlow(f.blogId))
                /\ cm' = CmSet([cm EXCEPT !.editingCommentId = 0, !.editContent = "",
                                          !.loading = TRUE])
        /\ UNCHANGED <<actions, view, user, routeId, remoteVars, sent, prompts,
                       list, lib, create, edit, detail, navigated, notifs, channels>>

----------------------------------------------------------------------------
(* CommentFileUpload, the child of the comment form.  Its state is kept in   *)
(* cm.upload; onFilesUpload is Comments.handleFilesUpload, which stores the  *)
(* list it is given in the uploadedFiles of Comments.                        *)

\* the form, and the dropzone in it, are rendered for a signed-in user
FormShown == DetailMain /\ user # NoUser

\* `${Date.now()}_${random}.${ext}`: a name no earlier upload has
UploadNames == <<"n1", "n2", "n3", "n4", "n5", "n6", "n7", "n8", "n9", "n10">>

\* the batches dropped: n files of the largest size allowed, the b-th of them
\* (if any) one byte larger
DropSizes == {1, maxFiles, maxFiles + 1}
Batch(n, b) == [k \in 1..n |-> [size |-> IF k = b THEN maxSize + 1 ELSE maxSize]]

\* the urls of the staged files, as Comments keeps them
Urls(files) == [k \in 1..Len(files) |-> files[k].url]

\* the catch and finally of onDrop: setError, setUploading(false)
DropFailed(up, f) == [up EXCEPT !.error = ErrMessage, !.uploading = FALSE]

\* the for loop of onDrop from its next file on, up to the next await or to the
\* end of the handler: f.len files are done and f.data holds their results;
\* f.look is the uploadedFiles of the render onDrop was created in
DropLoop(rest, f, up) ==
    LET k == f.len + 1
        all == f.look \o f.data
    IN IF k > Len(f.batch)
       THEN /\ flows' = rest
            /\ cm' = [cm EXCEPT !.upload = [up EXCEPT !.uploadedFiles = all,
                                                      !.uploading = FALSE],
                                !.uploadedFiles = Urls(all)]
       ELSE IF f.batch[k].size > maxSize
       THEN /\ flows' = rest
            /\ cm' = [cm EXCEPT !.upload = DropFailed(up, f)]
       ELSE /\ flows' = Put(rest, [f EXCEPT !.len = k,
                                            !.path = FilePath(UploadNames[up.names + 1]),
                                            !.op = "files.upload", !.served = FALSE])
            /\ cm' = [cm EXCEPT !.upload = [up EXCEPT !.names = @ + 1]]

\* a drop of n files on the dropzone, which is disabled while uploading or
\* submitting: more than maxFiles files are all rejected (onDropRejected, and
\* onDrop is called with no file); otherwise onDrop runs up to its first await
Dropped(n, b) ==
    LET acceptedFiles == Batch(n, b)
        f == [F0 EXCEPT !.kind = "onDrop", !.batch = acceptedFiles,
                        !.look = cm.upload.uploadedFiles]
        up == [cm.upload EXCEPT !.drops = @ + 1]
    IN /\ FormShown /\ ~cm.upload.uploading /\ ~cm.submitting
       /\ Room
       /\ cm.upload.drops < MaxDrops
       /\ IF n > maxFiles
          THEN /\ cm' = [cm EXCEPT !.upload = [up EXCEPT !.error = "Invalid files"]]
               /\ UNCHANGED flows
          ELSE DropLoop(flows, f, [up EXCEPT !.uploading = TRUE, !.error = ""])
       /\ UNCHANGED <<actions, view, user, routeId, remoteVars, sent, prompts,
                      list, lib, create, edit, detail, navigated, notifs, channels>>

OnDrop == \E n \in DropSizes, b \in 0..2 : b <= n /\ Dropped(n, b)

\* a drop of one file of allowed size
OnDropOne == Dropped(1, 0)

\* storage.from('comment-files').upload(filePath, file, { upsert: false })
ServeFilesUpload ==
    \E f \in Waiting("files.upload"), ok \in BOOLEAN :
        /\ flows' = Reply(f, ok, f.data)
        /\ fileBucket' = IF ok THEN fileBucket \cup {f.path} ELSE fileBucket
        /\ UNCHANGED <<actions, view, user, routeId, dbBlogs, imgBucket, dbComments, dbAttach,
                       sent, prompts, viewVars, notifs, channels>>

\* onDrop after an upload: a failed upload is thrown to the catch; otherwise
\* the file's result is pushed and the loop goes on
OnDropAfterUpload ==
    \E f \in InFlight :
        /\ f.kind = "onDrop" /\ f.served
        /\ IF ~f.ok
           THEN /\ flows' = Take(flows, f)
                /\ cm' = [cm EXCEPT !.upload = DropFailed(cm.upload, f)]
           ELSE LET uploadedFile == [url |-> PublicUrl("comment-files", f.path),
                                     path |-> f.path, size |-> f.batch[f.len].size]
                IN DropLoop(Take(flows, f),
                            [f EXCEPT !.data = Append(f.data, uploadedFile)], cm.upload)
        /\ UNCHANGED <<actions, view, user, routeId, remoteVars, sent, prompts,
                       list, lib, create, edit, detail, navigated, notifs, channels>>

\* handleRemoveFile(index) up to its await
HandleRemoveFile ==
    \E index \in 1..Len(cm.upload.uploadedFiles) :
        LET fileToRemove == cm.upload.uploadedFiles[index]
        IN /\ FormShown
           /\ Room
           /\ cm.upload.removals < MaxRemovals
           /\ cm' = [cm EXCEPT !.upload.removals = @ + 1]
           /\ flows' = Put(flows, [F0 EXCEPT !.kind = "handleRemoveFile",
                                            !.op = "files.remove",
                                            !.data = <<fileToRemove.path>>,
                                            !.look = cm.upload.uploadedFiles,
                                            !.len = index])
           /\ UNCHANGED <<actions, view, user, routeId, remoteVars, sent, prompts,
                          list, lib, create, edit, detail, navigated, notifs, channels>>

\* handleRemoveFile after its await (the result of the removal is not looked
\* at): the file is filtered out of the list of the handler's render
RemoveFileDone ==
    \E f \in InFlight :
        /\ f.kind = "handleRemoveFile" /\ f.served
        /\ flows' = Take(flows, f)
        /\ LET newFiles == RemoveAt(f.look, f.len)
           IN cm' = [cm EXCEPT !.upload.uploadedFiles = newFiles,
                               !.uploadedFiles = Urls(newFiles)]
        /\ UNCHANGED <<actions, view, user, routeId, remoteVars, sent, prompts,
                       list, lib, create, edit, detail, navigated, notifs, channels>>

\* handleClearAll up to its await: nothing staged or a declined prompt ends it
HandleClearAll ==
    \E answer \in BOOLEAN :
        /\ FormShown
        /\ Room
        /\ cm.upload.uploadedFiles # <<>>
        /\ cm.upload.removals < MaxRemovals
        /\ cm' = [cm EXCEPT !.upload.removals = @ + 1]
        /\ prompts' = Prompt(answer)
        /\ flows' = IF ~answer THEN flows
                    ELSE Put(flows, [F0 EXCEPT
                                       !.kind = "handleClearAll", !.op = "files.remove",
                                       !.data = [k \in 1..Len(cm.upload.uploadedFiles) |->
                                                   cm.upload.uploadedFiles[k].path]])
        /\ UNCHANGED <<actions, view, user, routeId, remoteVars, sent,
                       list, lib, create, edit, detail, navigated, notifs, channels>>

\* handleClearAll after its await
ClearAllDone ==
    \E f \in InFlight :
        /\ f.kind = "handleClearAll" /\ f.served
        /\ flows' = Take(flows, f)
        /\ cm' = [cm EXCEPT !.upload.uploadedFiles = <<>>, !.uploadedFiles = <<>>]
        /\ UNCHANGED <<actions, view, user, routeId, remoteVars, sent, prompts,
                       list, lib, create, edit, detail, navigated, notifs, channels>>

\* handleSubmit on the form with the files CommentFileUpload has reported
CmHandleSubmitStaged ==
    \E text \in Inputs :
        /\ FormShown
        /\ cm.changes < MaxPosts
        /\ CmSubmit([cm EXCEPT !.content = text, !.changes = @ + 1])
        /\ UNCHANGED <<actions, fileBucket>>

NextUpload ==
    \/ OnDrop \/ OnDropAfterUpload
    \/ HandleRemoveFile \/ RemoveFileDone \/ HandleClearAll \/ ClearAllDone

----------------------------------------------------------------------------
(* lib/storage.ts fetchBlogs(page, limit), called against an unchanging table *)

LibFetchBlogs ==
    \E page \in 1..MaxLibPage, limit \in 1..MaxLibLimit, ok \in BOOLEAN :
        /\ view = "lib"
        /\ lib' = [page |-> page, limit |-> limit, called |-> TRUE, threw |-> ~ok,
                   data |-> IF ok THEN Range(RowsDesc(dbBlogs), WindowFrom(page, limit),
                                             WindowTo(page, limit))
                            ELSE <<>>]
        /\ Budget /\ actions' = actions + 1
        /\ UNCHANGED <<view, user, routeId, remoteVars, flows, sent, prompts,
                       list, create, edit, detail, cm, navigated, notifs, channels>>

----------------------------------------------------------------------------
(* CreateBlog *)

CreateShown == view = "create" /\ ~navigated

\* the title input's onChange (disabled while loading)
CreateSetTitle ==
    \E text \in Inputs :
        /\ CreateShown /\ ~create.loading
        /\ create.title # text
        /\ create' = [create EXCEPT !.title = text]
        /\ UNCHANGED <<actions, view, user, routeId, remoteVars, flows, sent, prompts,
                       list, lib, edit, detail, cm, navigated, notifs, channels>>

\* the content textarea's onChange (disabled while loading)
CreateSetContent ==
    \E text \in Inputs :
        /\ CreateShown /\ ~create.loading
        /\ create.content # text
        /\ create' = [create EXCEPT !.content = text]
        /\ UNCHANGED <<actions, view, user, routeId, remoteVars, flows, sent, prompts,
                       list, lib, edit, detail, cm, navigated, notifs, channels>>

\* the checks of handleSubmit that return before any request
CreateRejected == user = NoUser \/ Trim(create.title) = "" \/ Trim(create.content) = ""

\* handleSubmit up to its await (the submit button is disabled while loading)
CreateHandleSubmit ==
    /\ CreateShown /\ ~create.loading
    /\ Room
    /\ Spend(~CreateRejected)
    /\ IF CreateRejected
       THEN /\ create' = [create EXCEPT !.error =
                             IF user = NoUser THEN "You must be logged in to create a blog"
                             ELSE IF Trim(create.title) = "" THEN "Please enter a title"
                             ELSE "Please enter blog content"]
            /\ UNCHANGED <<flows, sent>>
       ELSE /\ create' = [create EXCEPT !.loading = TRUE, !.error = ""]
            /\ flows' = Put(flows, [F0 EXCEPT !.kind = "CreateBlog.handleSubmit",
                                             !.op = "blogs.insert",
                                             !.title = Trim(create.title),
                                             !.content = Trim(create.content)])
            /\ sent' = Append(sent, Sent("CreateBlog", "blogs.insert", 0, NoPath))
    /\ UNCHANGED <<view, user, routeId, remoteVars, prompts,
                   list, lib, edit, detail, cm, navigated, notifs, channels>>

NextBlogId == IF DOMAIN dbBlogs = {} THEN 1
              ELSE 1 + CHOOSE i \in DOMAIN dbBlogs : \A j \in DOMAIN dbBlogs : j <= i

\* insert into blogs (title, content, author_id, ...) returning the row
ServeBlogsInsert ==
    \E f \in Waiting("blogs.insert"), ok \in BOOLEAN :
        /\ flows' = Reply(f, ok, <<>>)
        /\ dbBlogs' = IF ok
                      THEN [i \in DOMAIN dbBlogs \cup {NextBlogId} |->
                              IF i = NextBlogId
                              THEN [id |-> i, author_id |-> user, image_path |-> NoPath,
                                    title |-> f.title, content |-> f.content]
                              ELSE dbBlogs[i]]
                      ELSE dbBlogs
        /\ UNCHANGED <<actions, view, user, routeId, imgBucket, dbComments, dbAttach, fileBucket,
                       sent, prompts, viewVars, notifs, channels>>

\* handleSubmit after its await: on success setTitle(""), setContent(""), then
\* navigate("/"), then alert("Blog created successfully!"); setLoading(false)
CreateSubmitDone ==
    \E f \in InFlight :
        /\ f.kind = "CreateBlog.handleSubmit" /\ f.served
        /\ flows' = Take(flows, f)
        /\ IF f.ok
           THEN /\ create' = [create EXCEPT !.title = "", !.content = "",
                                            !.calls = @ \o <<"clear", "navigate", "alert">>,
                                            !.loading = FALSE]
                /\ navigated' = TRUE
           ELSE /\ create' = [create EXCEPT !.error = OrDefault(ErrMessage,
                                                                "Failed to create blog"),
                                            !.loading = FALSE]
                /\ UNCHANGED navigated
        /\ UNCHANGED <<actions, view, user, routeId, remoteVars, sent, prompts,
                       list, lib, edit, detail, cm, notifs, channels>>

\* handleCancel: the prompt is shown when something was typed
CreateHandleCancel ==
    \E answer \in BOOLEAN :
        /\ CreateShown /\ ~create.loading
        /\ navigated' = ((create.title = "" /\ create.content = "") \/ answer)
        /\ create' = IF navigated' THEN [create EXCEPT !.calls = @ \o <<"navigate">>]
                     ELSE create
        /\ UNCHANGED <<actions, view, user, routeId, remoteVars, flows, sent, prompts,
                       list, lib, edit, detail, cm, notifs, channels>>

----------------------------------------------------------------------------
(* Initial states: one view is opened on a backend that already holds rows *)

\* the rows BlogList is opened on
ListRow(i) == [id |-> i,
               author_id |-> IF i % 2 = 1 THEN "u1" ELSE "u2",
               image_path |-> IF i % 3 = 0 THEN NoPath ELSE ImagePath(i),
               title |-> IF i % 4 = 0 THEN "a" ELSE "b",
               content |-> "b"]

\* the table sizes BlogList is opened on: empty, a second page of one row, full
ListSizes == {0, ITEMS_PER_PAGE + 1, MaxBlogs}

ListInit == [blogs |-> <<>>, loading |-> TRUE, error |-> "", search |-> "",
             currentPage |-> 1, totalBlogs |-> 0, totalPages |-> 0, searches |-> 0]
LibInit == [page |-> 0, limit |-> 0, called |-> FALSE, threw |-> FALSE, data |-> <<>>]
EditInit == [title |-> "", content |-> "", imagePath |-> NoPath, loading |-> TRUE,
             saving |-> FALSE, error |-> "", success |-> "", found |-> "", timers |-> 0]
CreateInit == [title |-> "", content |-> "", loading |-> FALSE, error |-> "",
               calls |-> <<>>]
DetailInit == [blog |-> Null, author |-> Null, loading |-> TRUE, error |-> "",
               deleting |-> FALSE]
PromptsInit == [accepted |-> 0, last |-> "none"]

InitBackend(n) ==
    /\ dbBlogs = [i \in 1..n |-> ListRow(i)]
    /\ imgBucket = {ListRow(i).image_path : i \in 1..n} \ {NoPath}
    /\ dbComments = <<>>
    /\ dbAttach = <<>>
    /\ fileBucket = {}

InitViews ==
    /\ list = ListInit /\ lib = LibInit /\ edit = EditInit /\ create = CreateInit
    /\ detail = DetailInit /\ cm = CmInit
    /\ sent = <<>> /\ prompts = PromptsInit /\ notifs = EmptyBag /\ channels = EmptyBag
    /\ navigated = FALSE
    /\ actions = 0

\* BlogList mounts: the page effect runs
InitList ==
    /\ view = "list"
    /\ user = "u1"
    /\ routeId = 0
    /\ \E n \in ListSizes : InitBackend(n)
    /\ InitViews
    /\ flows = PageEffect(EmptyBag, 1, "")

InitLib ==
    /\ view = "lib"
    /\ user = NoUser
    /\ routeId = 0
    /\ \E n \in 0..MaxBlogs : InitBackend(n)
    /\ InitViews
    /\ flows = EmptyBag

\* the backend EditBlog and BlogDetail are opened on: post 1 by u1, with or
\* without a cover image, and post 2 by u2
InitPosts ==
    \E img \in {NoPath, ImagePath(1)} :
        /\ dbBlogs = [i \in 1..2 |-> IF i = 1 THEN [ListRow(1) EXCEPT !.image_path = img]
                                              ELSE ListRow(2)]
        /\ imgBucket = {img, ListRow(2).image_path} \ {NoPath}

\* EditBlog mounts on /edit/1 (a protected route): fetchBlog is called
InitEdit ==
    /\ view = "edit"
    /\ user \in Users
    /\ routeId = 1
    /\ InitPosts
    /\ dbComments = <<>> /\ dbAttach = <<>> /\ fileBucket = {}
    /\ InitViews
    /\ flows = Put(EmptyBag, EditFetchBlogFlow(1))

\* the comments BlogDetail is opened on: comment 1 by u1 with one uploaded file,
\* on post 1; comment 2 by u2 without files, on post 2
InitComment(i) == [id |-> i, blog_id |-> i, author_id |-> IF i = 1 THEN "u1" ELSE "u2",
                   content |-> "b"]
InitFiles(i) == IF i = 1 THEN <<PublicUrl("comment-files", FilePath("f1"))>> ELSE <<>>

\* BlogDetail mounts on /blog/1: fetchBlog is called
InitDetail ==
    /\ view = "detail"
    /\ user \in Users \cup {NoUser}
    /\ routeId = 1
    /\ InitPosts
    /\ \E n \in {0, 2} :
          /\ dbComments = [i \in 1..n |-> InitComment(i)]
          /\ dbAttach = [i \in 1..n |-> InitFiles(i)]
          /\ fileBucket = IF n > 0 THEN {FilePath("f1")} ELSE {}
    /\ InitViews
    /\ flows = Put(EmptyBag, DetailFetchBlogFlow(1))

\* CreateBlog mounts on /create; handleSubmit is also exercised with no user,
\* the case its first check is written for
InitCreate ==
    /\ view = "create"
    /\ user \in Users \cup {NoUser}
    /\ routeId = 0
    /\ InitPosts
    /\ dbComments = <<>> /\ dbAttach = <<>> /\ fileBucket = {}
    /\ InitViews
    /\ flows = EmptyBag

\* the table sizes of a BlogList left on its last page: that page shows one row, or two
LastPageSizes == {ITEMS_PER_PAGE + 1, ITEMS_PER_PAGE + 2}

\* the last page of a table of one row more than a page holds
LastPage == TotalPages(Some(ITEMS_PER_PAGE + 1))

\* a post of the signed-in user
OwnRow(i) == [ListRow(i) EXCEPT !.author_id = "u1"]

\* BlogList after the user went to the second and last page of their own posts
\* and the page effect's two requests have landed
InitLastPage ==
    /\ view = "list"
    /\ user = "u1"
    /\ routeId = 0
    /\ \E n \in LastPageSizes :
          /\ dbBlogs = [i \in 1..n |-> OwnRow(i)]
          /\ imgBucket = {OwnRow(i).image_path : i \in 1..n} \ {NoPath}
          /\ list = [ListInit EXCEPT
                        !.blogs = ListQuery(dbBlogs, "",
                                            WindowFrom(LastPage, ITEMS_PER_PAGE),
                                            WindowTo(LastPage, ITEMS_PER_PAGE)),
                        !.loading = FALSE, !.currentPage = LastPage,
                        !.totalBlogs = n, !.totalPages = TotalPages(Some(n))]
    /\ dbComments = <<>> /\ dbAttach = <<>> /\ fileBucket = {}
    /\ lib = LibInit /\ edit = EditInit /\ create = CreateInit
    /\ detail = DetailInit /\ cm = CmInit
    /\ sent = <<>> /\ prompts = PromptsInit /\ notifs = EmptyBag /\ channels = EmptyBag
    /\ navigated = FALSE
    /\ actions = 0
    /\ flows = EmptyBag

\* BlogDetail mounts on /blog/1 for its author, before anyone has commented
InitUpload == InitDetail /\ user = "u1" /\ dbComments = <<>>

Init == InitList \/ InitLib \/ InitEdit \/ InitDetail \/ InitCreate

Serve ==
    \/ ServeBlogsRange \/ ServeBlogsCount \/ ServeImageRemove \/ ServeBlogsDelete
    \/ ServeBlogsSingle \/ ServeBlogsUpdate
    \/ ServeUsersSingle \/ ServeCommentsSelect \/ ServeAttachmentsSelect
    \/ ServeCommentsDelete \/ ServeFilesRemove
    \/ ServeCommentsInsert \/ ServeAttachmentsInsert \/ ServeCommentsUpdate

NextList ==
    \/ FetchBlogsDone \/ FetchTotalCountDone
    \/ SetSearch \/ HandleSearch \/ HandleClearSearch \/ GoToPage
    \/ ListHandleDelete \/ ListDeleteAfterStorage \/ ListDeleteAfterRow

NextEdit ==
    \/ EditFetchBlogDone \/ EditTimerFires \/ EditSetTitle \/ EditSetContent
    \/ EditHandleSubmit \/ EditSubmitDone
    \/ EditHandleDelete \/ EditDeleteAfterStorage \/ EditDeleteAfterRow
    \/ EditHandleCancel \/ EditHandleDeleteImage \/ EditDeleteImageDone

NextDetail ==
    \/ OtherInserts \/ OtherDeletes
    \/ DetailFetchAfterBlog \/ DetailFetchAfterAuthor \/ DetailHandleDelete \/ DetailDeleteDone
    \/ DetailRouteChanges
    \/ CmNotified \/ CmFetchAfterComments \/ CmFetchDone
    \/ CmHandleDelete \/ CmDeleteAfterRow \/ CmDeleteAfterFiles
    \/ CmHandleSubmit \/ CmSubmitAfterComment \/ CmSubmitAfterAttachments
    \/ CmHandleUpdate \/ CmUpdateDone

NextCreate ==
    \/ CreateSetTitle \/ CreateSetContent \/ CreateHandleSubmit \/ CreateSubmitDone
    \/ CreateHandleCancel

Next == Serve \/ NextList \/ NextEdit \/ NextDetail \/ LibFetchBlogs
        \/ ServeBlogsInsert \/ NextCreate

Spec == Init /\ [][Next]_vars

\* one view at a time
SpecEdit == InitEdit /\ [][ServeBlogsSingle \/ ServeBlogsUpdate \/ ServeImageRemove
                          \/ ServeBlogsDelete \/ NextEdit]_vars

SpecDetail == InitDetail /\ [][ServeBlogsSingle \/ ServeBlogsDelete \/ ServeUsersSingle
                              \/ ServeCommentsSelect \/ ServeAttachmentsSelect
                              \/ ServeCommentsDelete \/ ServeFilesRemove
                              \/ ServeCommentsInsert \/ ServeAttachmentsInsert
                              \/ ServeCommentsUpdate
                              \/ NextDetail]_vars

SpecCreate == InitCreate /\ [][ServeBlogsInsert \/ NextCreate]_vars

SpecList == (InitList \/ InitLib)
            /\ [][ServeBlogsRange \/ ServeBlogsCount \/ ServeImageRemove \/ ServeBlogsDelete
                  \/ NextList \/ LibFetchBlogs]_vars

\* the file upload of the comment form: drops and removals
SpecUpload == InitUpload
              /\ [][ServeBlogsSingle \/ ServeUsersSingle \/ ServeCommentsSelect
                    \/ ServeFilesUpload \/ ServeFilesRemove
                    \/ DetailFetchAfterBlog \/ DetailFetchAfterAuthor
                    \/ CmFetchAfterComments
                    \/ NextUpload]_vars

\* the comment form in a session that posts comments with one file each
SpecPost == InitUpload
            /\ [][ServeBlogsSingle \/ ServeUsersSingle \/ ServeCommentsSelect
                  \/ ServeAttachmentsSelect \/ ServeFilesUpload
                  \/ ServeCommentsInsert \/ ServeAttachmentsInsert
                  \/ DetailFetchAfterBlog \/ DetailFetchAfterAuthor
                  \/ CmFetchAfterComments \/ CmFetchDone
                  \/ OnDropOne \/ OnDropAfterUpload
                  \/ CmHandleSubmitStaged
                  \/ CmSubmitAfterComment \/ CmSubmitAfterAttachments]_vars

\* BlogDetail and its Comments loading, with a jump to another post at any moment
SpecRoute == InitDetail
             /\ [][ServeBlogsSingle \/ ServeUsersSingle \/ ServeCommentsSelect
                   \/ ServeAttachmentsSelect
                   \/ DetailFetchAfterBlog \/ DetailFetchAfterAuthor
                   \/ DetailRouteChanges \/ DetailRouteChangesEarly
                   \/ CmFetchAfterComments \/ CmFetchDone]_vars

\* BlogList on its last page, in a session with up to MaxListDeletes deletions
SpecLastPage == InitLastPage
                /\ [][ServeBlogsRange \/ ServeBlogsCount \/ ServeImageRemove
                      \/ ServeBlogsDelete
                      \/ FetchBlogsDone \/ FetchTotalCountDone
                      \/ LastPageHandleDelete \/ ListDeleteAfterStorage
                      \/ ListDeleteAfterRow]_vars

\* The backend answers every request it was sent, and a handler suspended at
\* an await runs on when its reply is there.
Continues ==
    \/ FetchBlogsDone \/ FetchTotalCountDone \/ ListDeleteAfterStorage \/ ListDeleteAfterRow
    \/ EditFetchBlogDone \/ EditSubmitDone \/ EditDeleteAfterStorage \/ EditDeleteAfterRow
    \/ EditDeleteImageDone
    \/ DetailFetchAfterBlog \/ DetailFetchAfterAuthor \/ DetailDeleteDone
    \/ CmFetchAfterComments \/ CmFetchDone \/ CmDeleteAfterRow \/ CmDeleteAfterFiles
    \/ CmSubmitAfterComment \/ CmSubmitAfterAttachments \/ CmUpdateDone
    \/ CreateSubmitDone

FairSpec == Spec /\ WF_vars(Serve \/ ServeBlogsInsert) /\ WF_vars(Continues)

----------------------------------------------------------------------------
(* Properties *)

Descending(rows) == \A i, j \in 1..Len(rows) : i < j => rows[i].id > rows[j].id

\* a table holding the ids 1..n, newest first: the row at offset o has id n - o
IsWindow(data, n, p, s) ==
    /\ Len(data) = Max(0, Min(s, n - (p - 1) * s))
    /\ \A k \in 1..Len(data) : data[k].id = n - ((p - 1) * s + k - 1)

NoDeleteYet == sent = <<>>

\* C1: the list fetcher asks for rows (p-1)*s .. (p-1)*s + s - 1 of the posts in
\* descending creation order; the window it gets starts at offset (p-1)*s and
\* holds at most s rows (BlogList.fetchBlogs with s = ITEMS_PER_PAGE, and
\* lib fetchBlogs(p, s))
C1_FetchWindow ==
    /\ \A f \in InFlight :
          f.kind = "fetchBlogs" =>
             /\ f.page >= 1
             /\ f.from = (f.page - 1) * ITEMS_PER_PAGE
             /\ f.to = (f.page - 1) * ITEMS_PER_PAGE + ITEMS_PER_PAGE - 1
             /\ (f.served /\ f.ok) =>
                   /\ Len(f.data) <= ITEMS_PER_PAGE
                   /\ Descending(f.data)
                   /\ (NoDeleteYet /\ f.search = "") =>
                         IsWindow(f.data, Cardinality(DOMAIN dbBlogs), f.page,
                                  ITEMS_PER_PAGE)
    /\ Len(list.blogs) <= ITEMS_PER_PAGE
    /\ Descending(list.blogs)
    /\ (lib.called /\ ~lib.threw) =>
          /\ Len(lib.data) <= lib.limit
          /\ Descending(lib.data)
          /\ IsWindow(lib.data, Cardinality(DOMAIN dbBlogs), lib.page, lib.limit)

\* page 2 of twenty posts arrived: the posts 14 down to 9
C1_Witness ==
    \E f \in InFlight :
        /\ f.kind = "fetchBlogs" /\ f.served /\ f.ok
        /\ f.page = 2 /\ Len(f.data) = ITEMS_PER_PAGE
        /\ f.data[1].id = 14 /\ f.data[ITEMS_PER_PAGE].id = 9

\* what a fetch of the post's comments would return now
FreshComments ==
    LET rows == CommentsOf(dbComments, routeId)
    IN [k \in 1..Len(rows) |->
          [id |-> rows[k].id, blog_id |-> rows[k].blog_id, author_id |-> rows[k].author_id,
           content |-> rows[k].content,
           attachments |-> [null |-> FALSE, rows |-> dbAttach[rows[k].id]]]]

\* every notification is delivered and every fetch and delete of Comments is over
CmQuiet ==
    /\ DetailMain
    /\ notifs = EmptyBag
    /\ ~\E f \in InFlight : f.kind \in {"fetchComments", "Comments.handleDelete"}

\* C2: once the notifications are delivered and every fetch has completed (none
\* of them failed), the displayed comments are those a fresh fetch would return
C2_Converges ==
    (CmQuiet /\ cm.error = "" /\ ~cm.nullLookup) => cm.comments = FreshComments

StorageFailed(f) ==
    /\ f.kind \in {"EditBlog.handleDelete", "BlogList.handleDelete"}
    /\ f.pc = "storage" /\ f.served /\ ~f.ok

Resumes(f) == CopiesIn(f, flows') < CopiesIn(f, flows)

RowDeleteIssued(f) ==
    /\ \E g \in BagToSet(flows') :
          /\ g.kind = f.kind /\ g.id = f.id /\ g.storageError
          /\ g.pc = "row" /\ g.op = "blogs.delete" /\ ~g.served
          /\ CopiesIn(g, flows') > CopiesIn(g, flows)
    /\ Len(sent') = Len(sent) + 1
    /\ sent'[Len(sent')].op = "blogs.delete" /\ sent'[Len(sent')].id = f.id

\* the row delete that followed a failed storage removal was performed
RowGoneAfterFailure ==
    \A f \in InFlight :
        (f.kind \in {"EditBlog.handleDelete", "BlogList.handleDelete"}
         /\ f.storageError /\ f.pc = "row" /\ f.served /\ f.ok)
        => f.id \notin DOMAIN dbBlogs

\* C3: when the storage removal of a confirmed post deletion (EditBlog, BlogList)
\* failed, the handler goes on to issue the delete of the row, and the backend
\* performing that request removes the row
C3_StorageFailureKeepsDelete ==
    /\ []RowGoneAfterFailure
    /\ [][\A f \in InFlight : (StorageFailed(f) /\ Resumes(f)) => RowDeleteIssued(f)]_vars

\* EditBlog deleted the post although removing its image had failed
C3_Witness ==
    \E f \in InFlight :
        /\ f.kind = "EditBlog.handleDelete" /\ f.storageError
        /\ f.pc = "row" /\ f.served /\ f.ok
        /\ f.id \notin DOMAIN dbBlogs
        /\ f.path \in imgBucket

FetchLands(f) ==
    /\ f.kind = "fetchComments" /\ f.pc = "attachments" /\ f.served
    /\ Resumes(f)
    /\ DetailMain

\* C4: every displayed comment has an attachments sequence; a fetch that lands
\* gives each comment the rows its lookup returned, the empty sequence when the
\* lookup returned no data, and sets no error
C4_AttachmentsAlways ==
    /\ [](\A k \in 1..Len(cm.comments) : ~cm.comments[k].attachments.null)
    /\ [][\A f \in InFlight :
            FetchLands(f) =>
               /\ cm'.error = cm.error
               /\ Len(cm'.comments) = Len(f.data)
               /\ \A k \in 1..Len(f.data) :
                     /\ cm'.comments[k].id = f.data[k].id
                     /\ cm'.comments[k].attachments =
                           IF f.look[k].data.null THEN [null |-> FALSE, rows |-> <<>>]
                           ELSE f.look[k].data]_vars

\* comments are displayed although a lookup of their fetch had failed
C4_Witness ==
    /\ cm.nullLookup /\ cm.error = ""
    /\ cm.comments # <<>>
    /\ \E k \in 1..Len(cm.comments) :
          /\ cm.comments[k].attachments.rows = <<>>
          /\ cm.comments[k].id \in DOMAIN dbAttach
          /\ dbAttach[cm.comments[k].id] # <<>>

\* C5: no step changes or removes a stored post whose author is not the
\* signed-in user, whatever update the client sends (the request names the post
\* by id only)
C5_NonOwnerUpdateRejected ==
    [][\A i \in DOMAIN dbBlogs :
          dbBlogs[i].author_id # user =>
             (i \in DOMAIN dbBlogs' /\ dbBlogs'[i] = dbBlogs[i])]_vars

\* the backend accepted an update request of a user who is not the author, with
\* a title the stored post does not have
C5_Witness ==
    \E f \in InFlight :
        /\ f.kind = "EditBlog.handleSubmit" /\ f.op = "blogs.update"
        /\ f.served /\ f.ok
        /\ f.id \in DOMAIN dbBlogs
        /\ dbBlogs[f.id].author_id # user
        /\ dbBlogs[f.id].title # f.title

\* the least k with k pages of ITEMS_PER_PAGE rows holding c rows
LeastPages(c) ==
    CHOOSE k \in 0..c : k * ITEMS_PER_PAGE >= c /\ \A j \in 0..(k - 1) : j * ITEMS_PER_PAGE < c

CountLands(f) == f.kind = "fetchTotalCount" /\ f.served /\ f.ok /\ Resumes(f)

\* C6: a count c that arrives sets totalBlogs = c and totalPages = ceil(c / 6),
\* 0 for a count of 0 or null; twenty posts are 4 pages, and page 2 requests
\* the rows 6..11
C6_PageCount ==
    /\ [](/\ list.totalPages = LeastPages(list.totalBlogs)
          /\ list.totalBlogs = 20 => list.totalPages = 4
          /\ TotalPages(Null) = 0 /\ TotalPages(Some(0)) = 0
          /\ \A f \in InFlight :
                (f.kind = "fetchBlogs" /\ f.page = 2) => (f.from = 6 /\ f.to = 11))
    /\ [][\A f \in InFlight :
            CountLands(f) =>
               /\ list'.totalBlogs = (IF f.data = Null THEN 0 ELSE f.data[1])
               /\ list'.totalBlogs = Cardinality(DOMAIN dbBlogs)
                  \/ Len(sent) > 0
               /\ list'.totalPages = LeastPages(list'.totalBlogs)]_vars

\* twenty posts counted, and page 2 requested
C6_Witness ==
    /\ list.totalBlogs = 20 /\ list.totalPages = 4
    /\ list.currentPage = 2
    /\ \E f \in InFlight : f.kind = "fetchBlogs" /\ f.page = 2 /\ f.from = 6 /\ f.to = 11

\* C7: a post with an image_path is only removed after a storage removal for
\* that image_path was issued
C7_ImageRemovalIssued ==
    [][\A i \in DOMAIN dbBlogs :
          (i \notin DOMAIN dbBlogs' /\ dbBlogs[i].image_path # NoPath) =>
             \E k \in 1..Len(sent) :
                sent[k].op = "images.remove" /\ sent[k].path = dbBlogs[i].image_path]_vars

DeletePaths == {"BlogList", "BlogDetail", "EditBlog", "Comments"}

Issued(ops) ==
    Cardinality({k \in 1..Len(sent) : sent[k].by \in DeletePaths /\ sent[k].op \in ops})

Declined == prompts' # prompts /\ prompts'.accepted = prompts.accepted

\* C8: the delete paths issue row deletes and storage removals only for accepted
\* prompts (one of each per prompt at most), and a declined prompt leaves the
\* remote state, the views' state and the requests as they were
C8_ConfirmFirst ==
    /\ [](/\ Issued({"blogs.delete", "comments.delete"}) <= prompts.accepted
          /\ Issued({"images.remove", "files.remove"}) <= prompts.accepted)
    /\ [][Declined => UNCHANGED <<remoteVars, viewVars, flows, sent, notifs, channels>>]_vars

\* a prompt was declined after an accepted one had started its delete
C8_Witness ==
    /\ prompts.last = "declined" /\ prompts.accepted = 1
    /\ Issued({"blogs.delete", "comments.delete", "images.remove", "files.remove"}) = 1

Starts(g) == CopiesIn(g, flows') > CopiesIn(g, flows) /\ ~g.served

\* the invocation of g was waiting at where; its reply arrived and it goes on
ComesFrom(g, where) ==
    \E f \in InFlight :
        /\ f.kind = g.kind /\ f.id = g.id
        /\ f.pc = where /\ f.served /\ Resumes(f)

StorageRemoval(g) ==
    /\ g.kind \in {"BlogList.handleDelete", "EditBlog.handleDelete", "Comments.handleDelete"}
    /\ g.op \in {"images.remove", "files.remove"}

\* C9 as stated: in BlogList, EditBlog and Comments no deletion goes from its
\* row delete on to a storage removal
C9_StorageFirstEverywhere ==
    [][\A g \in BagToSet(flows') :
          (StorageRemoval(g) /\ Starts(g)) => ~ComesFrom(g, "row")]_vars

\* C9: post deletion in BlogList and EditBlog issues the storage removal of the
\* image before the row delete; Comments.handleDelete issues the row delete
\* first and the storage removal of the files only after that delete succeeded
C9_StorageOrder ==
    [][\A g \in BagToSet(flows') :
          /\ (g.kind \in {"BlogList.handleDelete", "EditBlog.handleDelete"} /\ Starts(g)) =>
                /\ g.op = "images.remove" => ~ComesFrom(g, "row")
                /\ (g.op = "blogs.delete" /\ g.path # NoPath) =>
                      /\ ComesFrom(g, "storage")
                      /\ \E k \in 1..Len(sent) :
                            sent[k].op = "images.remove" /\ sent[k].path = g.path
          /\ (g.kind = "Comments.handleDelete" /\ g.op = "files.remove" /\ Starts(g)) =>
                /\ ComesFrom(g, "row")
                /\ \E f \in InFlight :
                      f.kind = g.kind /\ f.id = g.id /\ f.pc = "row" /\ f.ok /\ Resumes(f)
                /\ \E k \in 1..Len(sent) :
                      sent[k].op = "comments.delete" /\ sent[k].id = g.id]_vars

\* the files of a comment are being removed, its row delete is already sent
C9_Witness ==
    /\ \E f \in InFlight : f.kind = "Comments.handleDelete" /\ f.pc = "files" /\ ~f.served
    /\ Len(sent) = 2
    /\ sent[1].op = "comments.delete" /\ sent[2].op = "files.remove"

\* C10: once fetchBlog has found the post to be another user's, EditBlog sends
\* no update request
C10_NoUpdateByNonOwner ==
    edit.found = "notOwner" =>
       \A k \in 1..Len(sent) : ~(sent[k].by = "EditBlog" /\ sent[k].op = "blogs.update")

\* a body, title or content with nothing but white space
Blank(text) == text \in {"", " "}

InsertStarts(op) == \E g \in BagToSet(flows') : Starts(g) /\ g.op = op

\* C11: a submit of the comment form with no user or a blank body starts no
\* comment insert; a submit of the create form with no user or a blank title
\* or content starts no post insert, and the error it sets is a message
C11_NoInsertOnInvalidInput ==
    [][ /\ (user = NoUser \/ Blank(cm'.content)) => ~InsertStarts("comments.insert")
        /\ (user = NoUser \/ Blank(create.title) \/ Blank(create.content)) =>
               /\ ~InsertStarts("blogs.insert")
               /\ create'.error # create.error => create'.error # ""
      ]_vars

\* a signed-in user submitted a body of white space: nothing was sent
C11_Witness ==
    /\ view = "detail" /\ user # NoUser
    /\ cm.ignored /\ cm.content = " " /\ cm.editingCommentId = 0
    /\ sent = <<>>

\* C12: in CreateBlog the success confirmation comes before the navigation to
\* the list: no navigate call precedes the alert
C12_ConfirmationFirst ==
    \A i, j \in 1..Len(create.calls) :
        create.calls[i] = "navigate" /\ create.calls[j] = "alert" => j < i

SubmitKinds == {"Comments.handleSubmit", "CreateBlog.handleSubmit", "EditBlog.handleSubmit"}

\* the busy flag and the error message of the view a submit belongs to
Busy(kind) == IF kind = "Comments.handleSubmit" THEN cm.submitting
              ELSE IF kind = "CreateBlog.handleSubmit" THEN create.loading
              ELSE edit.saving
ErrorOf(kind) == IF kind = "Comments.handleSubmit" THEN cm.error
                 ELSE IF kind = "CreateBlog.handleSubmit" THEN create.error
                 ELSE edit.error

\* the view of the submit is on screen (Comments goes with its BlogDetail)
Shown(kind) == kind = "Comments.handleSubmit" => DetailMain

Submitting(kind) == \E f \in InFlight : f.kind = kind

\* the view on screen shows its busy flag (one view is open in a session)
BusyShown == \E kind \in SubmitKinds : Busy(kind) /\ Shown(kind)

\* the submit that was waiting as f takes its last step
SubmitEnds(f) ==
    /\ f.kind \in SubmitKinds /\ f.served /\ Resumes(f)
    /\ \A g \in BagToSet(flows') : g.kind # f.kind

\* C13: the busy flag of Comments, CreateBlog and EditBlog is true only
\* while a remote mutation of its submit is under way; the last step of a
\* submit puts it back to false, sets a message if the remote call failed and
\* sets none if it succeeded; and a flag that is true becomes false
C13_BusyFlag ==
    /\ [](\A kind \in SubmitKinds : Busy(kind) /\ Shown(kind) => Submitting(kind))
    /\ [][\A f \in InFlight :
             SubmitEnds(f) /\ Shown(f.kind) =>
                /\ Busy(f.kind) /\ ~Busy(f.kind)'
                /\ ~f.ok => ErrorOf(f.kind)' # ""
                /\ f.ok => ErrorOf(f.kind)' = ErrorOf(f.kind)]_vars
    /\ BusyShown ~> ~BusyShown

\* a comment submit was started, its insert failed, and the form is idle again
\* with a message
C13_Witness ==
    /\ view = "detail" /\ DetailMain
    /\ \E k \in 1..Len(sent) : sent[k].op = "comments.insert"
    /\ ~Submitting("Comments.handleSubmit")
    /\ ~cm.submitting /\ cm.error # ""

\* the submit waiting as f learns that its attachment insert failed
AttachmentsFailed(f) ==
    /\ f.kind = "Comments.handleSubmit" /\ f.pc = "attachments"
    /\ f.served /\ ~f.ok /\ Resumes(f)

RequestsFor(op, id) == {k \in 1..Len(sent) : sent[k].op = op /\ sent[k].id = id}

\* C14: when the attachment insert of a submit fails after its comment insert
\* succeeded, the handler ends there: it starts no request (no delete of the
\* comment, no second attachment insert), the comment is still stored, with
\* no attachment, unless the user deleted it, and the error message is set;
\* an attachment insert is only ever started by a submit that just learned of
\* its comment insert
C14_NoRecovery ==
    /\ [][\A g \in BagToSet(flows') :
             Starts(g) /\ g.op = "attachments.insert" => ComesFrom(g, "comment")]_vars
    /\ [][\A f \in InFlight :
             AttachmentsFailed(f) =>
                LET id == f.data[1]
                IN /\ flows' = Take(flows, f) /\ sent' = sent
                   /\ dbComments' = dbComments /\ dbAttach' = dbAttach
                   /\ id \in DOMAIN dbComments \/ RequestsFor("comments.delete", id) # {}
                   /\ id \in DOMAIN dbAttach => dbAttach[id] = <<>>
                   /\ DetailMain => cm'.error # "" /\ ~cm'.submitting]_vars

\* the comment is stored without the file that was staged for it, the form
\* is idle and shows the message
C14_Witness ==
    \E k \in 1..Len(sent) :
        /\ sent[k].op = "attachments.insert"
        /\ sent[k].id \in DOMAIN dbComments /\ dbAttach[sent[k].id] = <<>>
        /\ ~Submitting("Comments.handleSubmit")
        /\ DetailMain /\ ~cm.submitting /\ cm.error # ""
        /\ cm.uploadedFiles # <<>>

\* the submit waiting as f learns the outcome of its comment insert
CommentInsertReturns(f) ==
    /\ f.kind = "Comments.handleSubmit" /\ f.pc = "comment" /\ f.served /\ Resumes(f)

\* the rows of g are one per file of files, in order, all for comment id
RowsFor(g, id, files) ==
    /\ Len(g.look) = Len(files)
    /\ \A k \in 1..Len(files) :
          g.look[k].comment_id = id /\ g.look[k].file_url = files[k]

\* the row stored under id is the comment that f sent
IsCommentOf(id, f) ==
    /\ id \in DOMAIN dbComments
    /\ dbComments[id].blog_id = f.id /\ dbComments[id].author_id = f.author
    /\ dbComments[id].content = f.content

\* C15: an attachment insert is started only by a submit whose comment insert
\* just succeeded; a submit whose comment insert succeeded with files staged
\* starts one, with one row per staged file, each naming the comment that was
\* inserted and its file; with no file staged or a failed comment insert it
\* starts none
C15_AttachmentsAfterComment ==
    [][ /\ \A g \in BagToSet(flows') :
              Starts(g) /\ g.op = "attachments.insert" =>
                 \E f \in InFlight : CommentInsertReturns(f) /\ f.ok /\ Len(f.look) > 0
        /\ \A f \in InFlight :
              CommentInsertReturns(f) =>
                 IF f.ok /\ Len(f.look) > 0
                 THEN /\ \E g \in BagToSet(flows') :
                            /\ Starts(g) /\ g.op = "attachments.insert"
                            /\ RowsFor(g, f.data[1], f.look)
                      /\ IsCommentOf(f.data[1], f) \/ RequestsFor("comments.delete", f.data[1]) # {}
                      /\ DetailMain => f.look = cm.uploadedFiles
                 ELSE ~InsertStarts("attachments.insert")
      ]_vars

\* the attachment insert of a submit is on its way, with a row for the
\* comment that was just stored
C15_Witness ==
    \E g \in InFlight :
        /\ g.op = "attachments.insert" /\ ~g.served
        /\ Len(g.look) = 1 /\ g.look[1].comment_id \in DOMAIN dbComments
        /\ dbComments[g.look[1].comment_id].author_id = user
        /\ dbAttach[g.look[1].comment_id] = <<>>

\* a notification is delivered to a channel the client holds
Delivered(b) == BagIn(b, notifs) /\ notifs' = Take(notifs, b) /\ Subscribed(b)

\* what a fetch that got its comments and all its lookups returns
Response(f) ==
    [k \in 1..Len(f.data) |->
       [id |-> f.data[k].id, blog_id |-> f.data[k].blog_id,
        author_id |-> f.data[k].author_id, content |-> f.data[k].content,
        attachments |-> IF f.look[k].data.null THEN Rows(<<>>) ELSE f.look[k].data]]

\* a fetch found no comment: it ends without lookups
FetchLandsEmpty(f) ==
    /\ f.kind = "fetchComments" /\ f.pc = "comments" /\ f.served /\ f.ok /\ f.data = <<>>
    /\ Resumes(f)
    /\ DetailMain

FetchesInFlight == {f \in InFlight : f.kind = "fetchComments"}

\* C16: every notification delivered to the view starts one more fetch, next
\* to whatever fetches are in flight; a fetch that completes replaces the
\* displayed comments by its response, and nothing else changes the display
C16_EveryNotificationFetches ==
    [][ /\ \A b \in BagToSet(notifs) :
              Delivered(b) => flows' = Put(flows, FetchCommentsFlow(b))
        /\ \A f \in InFlight :
              /\ FetchLands(f) => cm'.comments = Response(f)
              /\ FetchLandsEmpty(f) => cm'.comments = <<>>
        /\ cm'.comments # cm.comments =>
              \E f \in InFlight : FetchLands(f) \/ FetchLandsEmpty(f)
      ]_vars

\* a notification started a fetch while an earlier fetch was still in flight
C16_Witness ==
    /\ DetailMain /\ notifs = EmptyBag /\ cm.changes > 0
    /\ \E f, g \in FetchesInFlight :
          /\ f # g \/ CopiesIn(f, flows) > 1
          /\ f.pc = "attachments" /\ g.pc = "comments"

\* a notification arrives for a channel the client has removed
DeliveredToRemoved(b) == BagIn(b, notifs) /\ notifs' = Take(notifs, b) /\ ~Subscribed(b)

\* C17: while Comments is on screen the client holds one channel, filtered on
\* the blogId of the page; it holds none before the view opens and after it
\* closed, and the channel of the former blogId is gone after a route change;
\* a notification that arrives for a removed channel starts no fetch
C17_OneSubscription ==
    /\ [](IF DetailMain THEN channels = SetToBag({routeId}) ELSE channels = EmptyBag)
    /\ [][\A b \in BagToSet(notifs) :
             DeliveredToRemoved(b) => flows' = flows /\ cm' = cm]_vars

\* the page moved on to another post while a notification for the former
\* post was in flight
C17_Witness ==
    /\ DetailMain /\ routeId = OtherPost
    /\ channels = SetToBag({OtherPost})
    /\ \E b \in BagToSet(notifs) : b # routeId

\* the list requests in flight
ListRequests(b) ==
    BagCardinality([f \in {g \in BagToSet(b) : g.kind = "fetchBlogs"} |-> CopiesIn(f, b)])

\* the user changes page, searches or clears the search
UserListAction ==
    /\ ListMounted
    /\ \/ actions' # actions /\ prompts' = prompts
       \/ list'.searches # list.searches

\* a list request learns that it failed
ListFetchFails(f) == f.kind = "fetchBlogs" /\ f.served /\ ~f.ok /\ Resumes(f)

\* C18: a change of page, a search or a clearing of the search starts one list
\* request; a list request that failed ends there, with the error message set
\* and the displayed rows as they were
C18_OneListRequest ==
    [][ /\ UserListAction => ListRequests(flows') = ListRequests(flows) + 1
        /\ \A f \in InFlight :
              ListFetchFails(f) =>
                 /\ flows' = Take(flows, f)
                 /\ list'.error # "" /\ list'.blogs = list.blogs
      ]_vars

\* the requests on the tables blogs, comments and comment_attachments that a
\* view makes for itself (the per-comment attachment lookups and the author
\* lookup are the fetches' own, and the lib helper belongs to no view)
TableCalls == {"blogs.range", "blogs.count", "blogs.insert", "blogs.update",
               "blogs.delete", "blogs.single", "comments.select", "comments.insert",
               "comments.update", "comments.delete", "attachments.insert"}

InComments(f) ==
    f.kind \in {"fetchComments", "Comments.handleSubmit", "Comments.handleUpdate",
                "Comments.handleDelete"}

\* the inline error message of the view that made the call f
InlineError(f) == IF view = "list" THEN list.error
                  ELSE IF view = "edit" THEN edit.error
                  ELSE IF view = "create" THEN create.error
                  ELSE IF InComments(f) THEN cm.error
                  ELSE detail.error

\* the call that f was waiting for failed, and f learns of it on screen
CallFails(f) ==
    /\ f.op \in TableCalls /\ f.served /\ ~f.ok /\ Resumes(f)
    /\ ~navigated
    /\ InComments(f) => DetailMain

\* C19: when a table call of a view fails, the step that learns of the failure
\* leaves the view's inline error message non-empty
C19_EveryFailureShown ==
    [][\A f \in InFlight : CallFails(f) => InlineError(f)' # ""]_vars

\* a request of the Comments view that changes or removes a comment row
CommentWrite(g) == g.op \in {"comments.update", "comments.delete"}

\* the comments stored for other authors than the signed-in user
ForeignComments == {id \in DOMAIN dbComments : dbComments[id].author_id # user}

\* C20: every comment update and comment delete the view sends carries the
\* filter author_id = the signed-in user, and no step in which the backend
\* serves a request of the client changes or removes a comment of another
\* author
C20_OwnCommentsOnly ==
    [][ /\ \A g \in BagToSet(flows') : Starts(g) /\ CommentWrite(g) => g.author = user
        /\ flows' # flows =>
              \A id \in ForeignComments :
                 id \in DOMAIN dbComments' /\ dbComments'[id] = dbComments[id]
      ]_vars

\* the user's update of an own comment was carried out next to a comment of
\* another author
C20_Witness ==
    /\ \E k \in 1..Len(sent) :
          /\ sent[k].op = "comments.update"
          /\ sent[k].id \in DOMAIN dbComments
          /\ dbComments[sent[k].id].author_id = user
          /\ dbComments[sent[k].id].content = "c"
    /\ ForeignComments # {}

\* the row delete requests the client has sent, in order
RowDeletes == SelectSeq(sent, LAMBDA r : r.op = "blogs.delete")

\* the one post shown on the last page was deleted, and nothing else was
OnlyPostDeleted ==
    /\ Len(RowDeletes) = 1 /\ RowDeletes[1].id = 1
    /\ DOMAIN dbBlogs = 2..(ITEMS_PER_PAGE + 1)

\* what a list request for the page and search term shown would return now
FreshPage ==
    ListQuery(dbBlogs, list.search, WindowFrom(list.currentPage, ITEMS_PER_PAGE),
              WindowTo(list.currentPage, ITEMS_PER_PAGE))

\* no request of BlogList is in flight and none of its list fetches failed
ListAtRest == ListMounted /\ flows = EmptyBag /\ list.error = ""

\* C22: after handleDelete deleted the only post shown on page p > 1, currentPage
\* is p - 1 and, once every list fetch it triggered has completed, the list shows
\* the rows of page p - 1
C22_StepsBackAPage ==
    (ListAtRest /\ OnlyPostDeleted) =>
        /\ list.currentPage = LastPage - 1
        /\ list.blogs = FreshPage

\* the page shown is a page of the list, once no request is in flight
PageInRange ==
    /\ list.currentPage >= 1
    /\ (ListMounted /\ flows = EmptyBag /\ list.totalPages >= 1) =>
          list.currentPage <= list.totalPages

\* C28: in BlogList currentPage >= 1 always, goToPage(p) changes currentPage only
\* when 1 <= p <= totalPages, and whenever totalPages >= 1 and no request is in
\* flight currentPage <= totalPages, also after two deletions started before
\* either finished
C28_PageInRange ==
    /\ []PageInRange
    /\ [][GoToPage => list'.currentPage \in 1..list.totalPages]_vars

\* a list request for the first page of all posts
UnfilteredFirstPage(g) ==
    /\ g.search = ""
    /\ g.from = 0 /\ g.to = ITEMS_PER_PAGE - 1

\* C24: the list request handleClearSearch issues carries no text filter and asks
\* for the first page, so that the rows shown once it completes are the
\* unfiltered first page, whatever the page and search term before
C24_ClearDropsFilter ==
    [][HandleClearSearch =>
          \A g \in BagToSet(flows') :
              (g.kind = "fetchBlogs" /\ Starts(g)) => UnfilteredFirstPage(g)]_vars

\* a list request for the first page of the posts matching term
FirstPageOf(g, term) ==
    /\ g.search = term
    /\ g.from = 0 /\ g.to = ITEMS_PER_PAGE - 1

\* C25: after handleSearch with a non-empty term, from any page, currentPage is 1
\* and every list fetch the search triggers asks for the first window of the
\* rows matching the term, so that in whatever order they complete the rows shown
\* are rows 0..5 of the matches
C25_SearchShowsFirstPage ==
    [][(HandleSearch /\ list.search # "") =>
          /\ list'.currentPage = 1
          /\ \A g \in BagToSet(flows') :
                (g.kind = "fetchBlogs" /\ Starts(g)) => FirstPageOf(g, list.search)]_vars

\* C26: once every fetch in flight has completed (none of them failed), each
\* comment Comments shows belongs to the view's current blogId, also when blogId
\* changed while a fetch for the previous blogId was in flight
C26_CommentsOfThisPost ==
    (CmQuiet /\ cm.error = "") => \A k \in 1..Len(cm.comments) : cm.comments[k].blog_id = routeId

\* the paths CommentFileUpload uploads files to
UploadPaths == {FilePath("f1"), StagedFile}

\* the stored object a public url of the comment-files bucket stands for
StoredAt(url) == CHOOSE p \in UploadPaths : PublicUrl("comment-files", p) = url

\* the files removal that handleDelete starts, if any
FilesRemovals == {g \in BagToSet(flows') : g.op = "files.remove" /\ Starts(g)}

\* C27: for a file that CommentFileUpload stored at path P, the path that
\* Comments.handleDelete derives from the attachment's file_url is P: deleting a
\* comment asks the bucket to remove exactly the objects uploaded for it
C27_PathRoundTrip ==
    [][\A f \in InFlight :
          (/\ f.kind = "Comments.handleDelete" /\ f.pc = "row"
           /\ f.served /\ f.ok /\ Resumes(f)
           /\ ~f.data.null /\ f.data.rows # <<>>) =>
             \E g \in FilesRemovals :
                 {g.data[k] : k \in 1..Len(g.data)}
                    = {StoredAt(f.data.rows[k]) : k \in 1..Len(f.data.rows)}]_vars

\* the files CommentFileUpload shows as staged
Staged == cm.upload.uploadedFiles

\* C21: the number of files staged in CommentFileUpload never exceeds 5, whatever
\* the drops and removals (so that "Files remaining", 5 - staged, is never
\* negative), and no staged file is larger than 10 MB
C21_StagedWithinLimits ==
    /\ Len(Staged) <= maxFiles
    /\ maxFiles - Len(Staged) >= 0
    /\ \A k \in 1..Len(Staged) : Staged[k].size <= maxSize

\* onDrop ends in its catch: a file of the batch was too large, or its upload
\* failed
DropFails(f) ==
    /\ f.kind = "onDrop" /\ f.served /\ Resumes(f)
    /\ ~\E g \in BagToSet(flows') : g.kind = "onDrop"
    /\ \/ ~f.ok
       \/ f.len < Len(f.batch) /\ f.batch[f.len + 1].size > maxSize

\* the paths at which onDrop stored files of its batch before it failed
StoredOfBatch(f) ==
    {f.data[k].path : k \in 1..Len(f.data)} \cup (IF f.ok THEN {f.path} ELSE {})

\* C30: when a file of a dropped batch fails validation (over 10 MB) or upload,
\* the staged list is unchanged, the parent is not notified, the error message
\* is set, and no file of that batch remains stored in the comment-files bucket
C30_FailedDropLeavesNothing ==
    [][\A f \in InFlight :
          DropFails(f) =>
             /\ cm'.upload.uploadedFiles = cm.upload.uploadedFiles
             /\ cm'.uploadedFiles = cm.uploadedFiles
             /\ cm'.upload.error # ""
             /\ StoredOfBatch(f) \cap fileBucket' = {}]_vars

\* handleSubmit reaches its end without an error: the comment is posted
PostSucceeds(f) ==
    /\ f.kind = "Comments.handleSubmit" /\ f.served /\ f.ok /\ Resumes(f)
    /\ f.pc = "attachments" \/ Len(f.look) = 0

\* no file is attached to two comments
NoSharedAttachment ==
    \A i, j \in DOMAIN dbAttach :
        i # j => {dbAttach[i][k] : k \in 1..Len(dbAttach[i])}
                   \cap {dbAttach[j][k] : k \in 1..Len(dbAttach[j])} = {}

\* C23: after a comment is posted successfully the staged file list is empty in
\* Comments and in CommentFileUpload, so that a file attached to one comment is
\* never in the attachment insert of a later comment posted from the same view
C23_StagedClearedAfterPost ==
    /\ [][\A f \in InFlight :
             PostSucceeds(f) =>
                /\ cm'.uploadedFiles = <<>>
                /\ cm'.upload.uploadedFiles = <<>>]_vars
    /\ []NoSharedAttachment

\* the editor was left (cancelled, or saved and redirected) and none of its
\* requests is in flight
EditorLeft == view = "edit" /\ navigated /\ flows = EmptyBag

\* the image of every stored post exists in the blog-images bucket
ImagesExist ==
    \A i \in DOMAIN dbBlogs :
        dbBlogs[i].image_path # NoPath => dbBlogs[i].image_path \in imgBucket

\* C29: every stored post whose image_path is set refers to an object that is
\* still in the blog-images bucket, whatever was done in EditBlog: removing
\* the image and then cancelling, or failing to save, does not leave the row
\* pointing at a deleted object
C29_RowImageExists == EditorLeft => ImagesExist

====
